---- MODULE Spec2Model ----
(***************************************************************************)
(* A model of the PDF question-answering agent: the chunking strategies,   *)
(* the document pipeline, the vector store adapter and the orchestrator.   *)
(*                                                                         *)
(* Strings are run-length encoded: a string is a sequence of runs          *)
(* [c |-> character, n |-> repetitions], n >= 1, adjacent runs holding     *)
(* different characters.  The encoding is exact (every Python string has   *)
(* exactly one encoding), and it lets texts of 10000 characters exist.     *)
(***************************************************************************)
EXTENDS Integers, Sequences, FiniteSets, TLC

VARIABLES
    cStrategy,   \* chunking: the strategy whose chunk_text is applied
    cText,       \* chunking: the text argument
    cMeta,       \* chunking: the metadata argument
    cEnv,        \* chunking: what the external splitters did during the call
    cRes,        \* chunking: the outcome of chunk_text, or NoResult
    tags,        \* agent: the (chunking, retrieval) tags it was constructed with
    chunking,    \* agent: the strategy of pdf_processor.chunking_strategy
    retrieval,   \* agent: the strategy of retriever
    handle,      \* agent: the collection vector_store.collection refers to
    pc,          \* agent: where the operation in progress stands, "Returned" or "Ready"
    arg,         \* agent: the argument of the operation in progress
    pdfChunks,   \* process_pdf: the chunks the pipeline returned
    ret,         \* agent: the outcome of the last completed operation
    raised,      \* agent: what raised during the operation in progress (or the last one)
    addArg,      \* process_pdf: the documents add_documents was called with
    relevant_docs, \* ask: the snippets the retriever returned
    llmCalls,    \* ask: the calls of llm_service.generate_response
    response_parts, \* ask: the fragments received from the LLM adapter so far
    streamed,    \* LLM: the chunks the model has streamed in this call
    cleared,     \* history: the operation before was a clear_knowledge_base that returned True
    reported,    \* history: the collection_name of the last report of get_knowledge_base_stats
    dbLive,      \* database: the collection stored under the configured name (0: none)
    dbMade,      \* database: the number of collections created so far
    dbRecs,      \* database: the records of the live collection
    rStrategy,   \* retrieval: the strategy whose retrieve is applied
    rQuery,      \* retrieval: the query argument
    rEnv,        \* retrieval: what the similarity searches of the call do
    rRes,        \* retrieval: the snippets returned and the searches made, or NoRetrieved
    clearPc,     \* a clear_knowledge_base called from another thread: where it stands
    searchedDuring \* ask: where that clear stood when retriever.retrieve ran

chunkVars == <<cStrategy, cText, cMeta, cEnv, cRes>>
retrVars == <<rStrategy, rQuery, rEnv, rRes>>
dbVars == <<dbLive, dbMade, dbRecs>>
opVars == <<pdfChunks, addArg, relevant_docs, llmCalls, response_parts, streamed>>
histVars == <<cleared, reported>>
built == <<tags, chunking, retrieval>>
raceVars == <<clearPc, searchedDuring>>
agentVars == <<built, handle, pc, arg, ret, raised, opVars, histVars>>
vars == <<chunkVars, retrVars, agentVars, dbVars, raceVars>>

-----------------------------------------------------------------------------
(* Bounds of the model *)

\* The most pieces the external splitters cut a text into.
MaxPieces == 3

\* The most collections the database creates in one run.
MaxCollections == 2

\* The most chunks the model streams in one call.
MaxFragments == 2

-----------------------------------------------------------------------------
(* Strings *)

Run(c, n) == [c |-> c, n |-> n]

EmptyStr == <<>>

\* The characters of runs lo..hi of s.
RECURSIVE RunsLen(_, _, _)
RunsLen(s, lo, hi) ==
    IF lo > hi THEN 0
    ELSE IF lo = hi THEN s[lo].n
    ELSE LET mid == (lo + hi) \div 2
         IN  RunsLen(s, lo, mid) + RunsLen(s, mid + 1, hi)

\* len(s)
StrLen(s) == RunsLen(s, 1, Len(s))

\* s + t
Cat(s, t) ==
    IF s = <<>> THEN t
    ELSE IF t = <<>> THEN s
    ELSE IF s[Len(s)].c = t[1].c
         THEN SubSeq(s, 1, Len(s) - 1)
              \o <<Run(t[1].c, s[Len(s)].n + t[1].n)>>
              \o Tail(t)
         ELSE s \o t

\* The encoding of a sequence of runs: one run for each maximal block of
\* runs of the same character.
Canon(rs) ==
    LET starts == {i \in 1..Len(rs) : i = 1 \/ rs[i].c # rs[i - 1].c}
        start(j) == CHOOSE i \in starts : Cardinality({x \in starts : x < i}) = j - 1
        stop(j) == IF j = Cardinality(starts) THEN Len(rs) ELSE start(j + 1) - 1
    IN  [j \in 1..Cardinality(starts) |-> Run(rs[start(j)].c, RunsLen(rs, start(j), stop(j)))]

\* The string spelled by a sequence of characters.
Lit(cs) == Canon([i \in 1..Len(cs) |-> Run(cs[i], 1)])

\* s[:n]
Prefix(s, n) ==
    IF n <= 0 THEN EmptyStr
    ELSE IF StrLen(s) <= n THEN s
    ELSE LET last == CHOOSE i \in 1..Len(s) :
                        RunsLen(s, 1, i) >= n /\ RunsLen(s, 1, i - 1) < n
         IN  SubSeq(s, 1, last - 1) \o <<Run(s[last].c, n - RunsLen(s, 1, last - 1))>>

\* s.startswith(p)
StartsWith(s, p) == StrLen(s) >= StrLen(p) /\ Prefix(s, StrLen(p)) = p

\* s.endswith(c) for a character c
EndsWithChar(s, c) == s # <<>> /\ s[Len(s)].c = c

UpperCase == <<"A", "B", "C", "D", "E", "F", "G", "H", "I", "J", "K", "L", "M",
               "N", "O", "P", "Q", "R", "S", "T", "U", "V", "W", "X", "Y", "Z">>
LowerCase == <<"a", "b", "c", "d", "e", "f", "g", "h", "i", "j", "k", "l", "m",
               "n", "o", "p", "q", "r", "s", "t", "u", "v", "w", "x", "y", "z">>

LowerChar(c) ==
    IF \E i \in 1..26 : UpperCase[i] = c
    THEN LowerCase[CHOOSE i \in 1..26 : UpperCase[i] = c]
    ELSE c

\* s.lower()
LowerStr(s) == Canon([i \in 1..Len(s) |-> Run(LowerChar(s[i].c), s[i].n)])

Digits == <<"0", "1", "2", "3", "4", "5", "6", "7", "8", "9">>

\* str(n) of a natural number
RECURSIVE IntStr(_)
IntStr(n) ==
    IF n < 10 THEN <<Run(Digits[n + 1], 1)>>
    ELSE Cat(IntStr(n \div 10), <<Run(Digits[(n % 10) + 1], 1)>>)

Whitespace == {" ", "\n", "\t"}

\* not s.strip()
IsBlank(s) == \A i \in 1..Len(s) : s[i].c \in Whitespace

\* set(s.split()): the maximal blocks of s without whitespace
SplitTerms(s) ==
    LET starts == {i \in 1..Len(s) :
                      s[i].c \notin Whitespace /\ (i = 1 \/ s[i - 1].c \in Whitespace)}
        stop(i) == CHOOSE j \in i..Len(s) :
                      /\ \A k \in i..j : s[k].c \notin Whitespace
                      /\ (j = Len(s) \/ s[j + 1].c \in Whitespace)
    IN  {SubSeq(s, i, stop(i)) : i \in starts}

-----------------------------------------------------------------------------
(* Outcomes of calls: a value returned, or an exception raised *)

Ok(v) == [ok |-> TRUE, val |-> v]
Raised == [ok |-> FALSE, val |-> <<>>]

\* {**m, **upd}
DictUpdate(m, upd) ==
    [k \in (DOMAIN m) \cup (DOMAIN upd) |-> IF k \in DOMAIN upd THEN upd[k] ELSE m[k]]

-----------------------------------------------------------------------------
(* The external text splitters (langchain).  Their code is not part of the *)
(* repository: split_text returns a list of strings or raises.  The model  *)
(* lets it cut the text at run boundaries into k nearly equal pieces.      *)

SplitInto(text, k) ==
    LET L == Len(text)
        p == IF k < L THEN k ELSE L
    IN  [j \in 1..p |-> SubSeq(text, ((j - 1) * L) \div p + 1, (j * L) \div p)]

\* RecursiveCharacterTextSplitter.split_text: no chunk for the empty text.
RecursiveSplitOutcomes(text) ==
    {Raised} \cup {Ok(SplitInto(text, k)) : k \in 1..MaxPieces}

\* SemanticChunker.split_text: a text of one sentence (the empty text too)
\* is returned as it is.
SemanticSplitOutcomes(text) ==
    {Raised} \cup
    {Ok(IF text = <<>> THEN <<EmptyStr>> ELSE SplitInto(text, k)) : k \in 1..MaxPieces}

-----------------------------------------------------------------------------
(* Chunking strategies *)

NoResult == [ok |-> FALSE, val |-> <<>>, calls |-> <<>>]

NameA == Lit(<<"a", ".", "p", "d", "f">>)

Chunk(content, metadata) == [content |-> content, metadata |-> metadata]

\* A strategy's result: the chunks (or the exception), and the delegates
\* that were called on the way, in call order.
Result(out, calls) == [ok |-> out.ok, val |-> out.val, calls |-> calls]

Recursive_chunk_text(text, metadata, split) ==
    IF ~split.ok THEN Raised
    ELSE Ok([i \in 1..Len(split.val) |->
                Chunk(split.val[i],
                      DictUpdate(metadata,
                                 [chunk_id |-> i - 1,
                                  chunk_size |-> StrLen(split.val[i]),
                                  chunking_strategy |-> "recursive"]))])

Semantic_chunk_text(text, metadata, split) ==
    IF ~split.ok THEN Raised
    ELSE Ok([i \in 1..Len(split.val) |->
                Chunk(split.val[i],
                      DictUpdate(metadata,
                                 [chunk_id |-> i - 1,
                                  chunk_size |-> StrLen(split.val[i]),
                                  chunking_strategy |-> "semantic"]))])

\* The index of the k-th run of '.' that a run of ' ' follows (the k-th
\* occurrence of ". "), or 0.
RECURSIVE SepAt(_, _, _)
SepAt(text, from, k) ==
    IF from >= Len(text) THEN 0
    ELSE IF text[from].c = "." /\ text[from + 1].c = " "
         THEN IF k = 1 THEN from ELSE SepAt(text, from + 1, k - 1)
         ELSE SepAt(text, from + 1, k)

\* '. '.join(text.split('. ')[:3]): the text up to its third ". ".
FirstThreeSentences(text) ==
    LET i == SepAt(text, 1, 3)
    IN  IF i = 0 THEN text
        ELSE IF text[i].n = 1 THEN SubSeq(text, 1, i - 1)
        ELSE SubSeq(text, 1, i - 1) \o <<Run(".", text[i].n - 1)>>

S_Unknown == Lit(<<"U", "n", "k", "n", "o", "w", "n">>)
S_Document == Lit(<<"D", "o", "c", "u", "m", "e", "n", "t", ":", " ">>)
S_Page == Lit(<<",", " ", "P", "a", "g", "e", ":", " ">>)
S_Summary == Lit(<<"\n", "S", "u", "m", "m", "a", "r", "y", ":", " ">>)

create_document_summary(text, metadata) ==
    LET summary == FirstThreeSentences(text)
        name == IF "filename" \in DOMAIN metadata THEN metadata.filename ELSE S_Unknown
        doc_info0 == Cat(S_Document, name)
        doc_info == IF "page_number" \in DOMAIN metadata
                    THEN Cat(Cat(doc_info0, S_Page), IntStr(metadata.page_number))
                    ELSE doc_info0
    IN  Cat(Cat(doc_info, S_Summary), summary)

S_ContextChunk ==
    Lit(<<"[", "C", "o", "n", "t", "e", "x", "t", ":", " ",
          "T", "h", "i", "s", " ", "i", "s", " ", "c", "h", "u", "n", "k", " ">>)
S_Of == Lit(<<" ", "o", "f", " ">>)
S_FromDocument ==
    Lit(<<" ", "f", "r", "o", "m", " ", "t", "h", "e", " ",
          "d", "o", "c", "u", "m", "e", "n", "t", "]", "\n">>)
S_ChunkContent ==
    Lit(<<"\n", "[", "C", "h", "u", "n", "k", " ",
          "C", "o", "n", "t", "e", "n", "t", ":", "]", "\n">>)

add_context_to_chunk(chunk, doc_summary, chunk_idx, total_chunks) ==
    LET context_header ==
            Cat(Cat(Cat(Cat(Cat(Cat(S_ContextChunk, IntStr(chunk_idx + 1)), S_Of),
                            IntStr(total_chunks)), S_FromDocument), doc_summary),
                S_ChunkContent)
    IN  Cat(context_header, chunk)

\* Contextual chunking recording the size of the base chunk, not of the
\* chunk with its header.
Contextual_chunk_text_BaseSize(text, metadata, split) ==
    LET doc_summary == create_document_summary(text, metadata)
    IN  IF ~split.ok THEN Raised
        ELSE Ok([i \in 1..Len(split.val) |->
                    Chunk(add_context_to_chunk(split.val[i], doc_summary,
                                               i - 1, Len(split.val)),
                          DictUpdate(metadata,
                                     [chunk_id |-> i - 1,
                                      chunk_size |-> StrLen(split.val[i]),
                                      chunking_strategy |-> "contextual",
                                      has_context |-> TRUE]))])

Contextual_chunk_text(text, metadata, split) ==
    LET doc_summary == create_document_summary(text, metadata)
    IN  IF ~split.ok THEN Raised
        ELSE Ok([i \in 1..Len(split.val) |->
                    LET contextual_chunk ==
                            add_context_to_chunk(split.val[i], doc_summary,
                                                 i - 1, Len(split.val))
                    IN  Chunk(contextual_chunk,
                              DictUpdate(metadata,
                                         [chunk_id |-> i - 1,
                                          chunk_size |-> StrLen(contextual_chunk),
                                          chunking_strategy |-> "contextual",
                                          has_context |-> TRUE]))])

\* len(text) above which Hybrid uses Semantic
SemanticThreshold == 10000

\* chunk["metadata"]["chunking_strategy"] = "hybrid", for every chunk
TagHybrid(chunks) ==
    [i \in 1..Len(chunks) |->
        Chunk(chunks[i].content,
              DictUpdate(chunks[i].metadata, [chunking_strategy |-> "hybrid"]))]

\* Hybrid chunking that sends a text of exactly the threshold length to
\* Semantic.
Hybrid_chunk_text_Geq(text, metadata, env) ==
    LET first == IF StrLen(text) >= SemanticThreshold THEN "semantic" ELSE "recursive"
        chunks == IF first = "semantic"
                  THEN Semantic_chunk_text(text, metadata, env.sem)
                  ELSE Recursive_chunk_text(text, metadata, env.rec)
    IN  IF chunks.ok
        THEN Result(Ok(TagHybrid(chunks.val)), <<first>>)
        ELSE Result(Recursive_chunk_text(text, metadata, env.fb), <<first, "recursive">>)

\* env: what the external splitters do on each call Hybrid may make:
\* sem (the Semantic call), rec (the Recursive call), fb (the Recursive call
\* of the except branch).
Hybrid_chunk_text(text, metadata, env) ==
    LET text_length == StrLen(text)
        first == IF text_length > SemanticThreshold THEN "semantic" ELSE "recursive"
        chunks == IF first = "semantic"
                  THEN Semantic_chunk_text(text, metadata, env.sem)
                  ELSE Recursive_chunk_text(text, metadata, env.rec)
    IN  IF chunks.ok
        THEN Result(Ok(TagHybrid(chunks.val)), <<first>>)
        ELSE Result(Recursive_chunk_text(text, metadata, env.fb), <<first, "recursive">>)

ChunkingTags == {"recursive", "semantic", "contextual", "hybrid"}

\* ChunkingStrategyFactory.create_strategy: the strategy built for a tag
create_strategy(strategy_type) ==
    IF strategy_type \notin ChunkingTags THEN "recursive" ELSE strategy_type

\* strategy.chunk_text(text, metadata), with the splitters behaving as env says
chunk_text(strategy, text, metadata, env) ==
    CASE strategy = "recursive" ->
            Result(Recursive_chunk_text(text, metadata, env.rec), <<"recursive">>)
      [] strategy = "semantic" ->
            Result(Semantic_chunk_text(text, metadata, env.sem), <<"semantic">>)
      [] strategy = "contextual" ->
            Result(Contextual_chunk_text(text, metadata, env.rec), <<"contextual">>)
      [] strategy = "hybrid" -> Hybrid_chunk_text(text, metadata, env)

SplitEnvs(text) ==
    [sem : SemanticSplitOutcomes(text),
     rec : RecursiveSplitOutcomes(text),
     fb : RecursiveSplitOutcomes(text)]

-----------------------------------------------------------------------------
(* The document pipeline (PDFProcessor) *)

\* A file: its name and directory, its size, whether pypdf can read it, the
\* text pypdf extracts from each page, and the number of pieces the external
\* splitters cut its text into.
File(name, dir, size, readable, pages, pieces) ==
    [name |-> name, dir |-> dir, size |-> size, readable |-> readable,
     pages |-> pages, pieces |-> pieces]

S_PageOpen == Lit(<<"\n", "-", "-", "-", " ", "P", "a", "g", "e", " ">>)
S_PageClose == Lit(<<" ", "-", "-", "-", "\n">>)
S_Newline == Lit(<<"\n">>)
S_Slash == Lit(<<"/">>)
S_Underscore == Lit(<<"_">>)

\* f"\n--- Page {page_num + 1} ---\n{page_text}"
PageEntry(page_num, page_text) ==
    Cat(Cat(Cat(S_PageOpen, IntStr(page_num + 1)), S_PageClose), page_text)

\* sep.join(parts)
RECURSIVE Join(_, _)
Join(sep, parts) ==
    IF parts = <<>> THEN EmptyStr
    ELSE IF Len(parts) = 1 THEN parts[1]
    ELSE Cat(Cat(parts[1], sep), Join(sep, Tail(parts)))

extract_text(file) ==
    IF ~file.readable THEN Raised
    ELSE LET kept == {i \in 1..Len(file.pages) : ~IsBlank(file.pages[i])}
             nth(j) == CHOOSE i \in kept : Cardinality({x \in kept : x < i}) = j - 1
             text_content ==
                 [j \in 1..Cardinality(kept) |-> PageEntry(nth(j) - 1, file.pages[nth(j)])]
         IN  Ok(Join(S_Newline, text_content))

\* str(file_path)
PathStr(file) == Cat(Cat(file.dir, S_Slash), file.name)

\* PDFProcessor.process_pdf with chunking strategy `strategy`: the chunks, or
\* the exception of extract_text or chunk_document.
PDFProcessor_process_pdf(file, strategy, env) ==
    LET text == extract_text(file)
        metadata == [filename |-> file.name,
                     file_path |-> PathStr(file),
                     file_size |-> file.size,
                     source_type |-> "pdf"]
    IN  IF ~text.ok THEN Raised
        ELSE LET r == chunk_text(strategy, text.val, metadata, env)
             IN  IF r.ok THEN Ok(r.val) ELSE Raised

\* What the splitters may do on the text of a file: cut it into the file's
\* number of pieces, or raise.
FileSplitEnvs(file) ==
    LET text == IF extract_text(file).ok THEN extract_text(file).val ELSE EmptyStr
    IN  [sem : {Raised, Ok(IF text = <<>> THEN <<EmptyStr>> ELSE SplitInto(text, file.pieces))},
         rec : {Raised, Ok(SplitInto(text, file.pieces))},
         fb : {Raised, Ok(SplitInto(text, file.pieces))}]

\* The files process_pdf is called with
NameB == Lit(<<"b", ".", "p", "d", "f">>)
DirU == Lit(<<"u">>)
DirV == Lit(<<"v">>)

Files ==
    { File(NameA, DirU, 11, TRUE, <<Lit(<<"A", "b", ".", " ", "c">>)>>, 2),
      File(NameA, DirV, 12, TRUE, <<Lit(<<" ">>), Lit(<<"D", " ", "e", " ", "f">>)>>, 3),
      File(NameB, DirU, 13, TRUE, <<Lit(<<" ", "\n">>)>>, 1),
      File(NameB, DirV, 14, FALSE, <<>>, 1) }

\* PDFProcessor.process_pdf on every file, with every strategy and whatever
\* the splitters do: whether extract_text returned, and the outcome.
PipelineTable ==
    UNION { { [file |-> f, strategy |-> st, env |-> e,
               extracted |-> extract_text(f).ok,
               outcome |-> PDFProcessor_process_pdf(f, st, e)] :
                 st \in ChunkingTags, e \in FileSplitEnvs(f) } : f \in Files }

\* The runs of PDFProcessor.process_pdf on a file with a strategy
PipelineRuns(file, strategy) ==
    {t \in PipelineTable : t.file = file /\ t.strategy = strategy}

-----------------------------------------------------------------------------
(* The vector store (ChromaVectorStore over the external Chroma database) *)

\* settings.collection_name
CollectionName == "pdf_documents"

\* f"{doc['metadata']['filename']}_{doc['metadata']['chunk_id']}"
StorageId(doc) ==
    Cat(Cat(doc.metadata.filename, S_Underscore), IntStr(doc.metadata.chunk_id))

Record(doc) == [id |-> StorageId(doc), document |-> doc.content, metadata |-> doc.metadata]

Ids(recs) == {r.id : r \in recs}

\* An operation on the store: whether it returned, and the records of the
\* live collection after it.
Stored(ok, recs) == [ok |-> ok, recs |-> recs]

\* What collection.add may do: "error" (it raises), "strict" (it raises when
\* an id is already stored), "lenient" (it keeps the record already stored
\* under an id and adds the others).
AddOutcomes == {"error", "strict", "lenient"}

\* add_documents over a collection that stores whatever it is given
add_documents_NoIdCheck(h, live, recs, documents, embedOk, addOutcome) ==
    IF documents = <<>> THEN Stored(TRUE, recs)
    ELSE LET batch == {Record(documents[i]) : i \in 1..Len(documents)}
         IN  IF ~embedOk \/ h # live \/ addOutcome = "error" THEN Stored(FALSE, recs)
             ELSE Stored(TRUE, recs \cup batch)

\* add_documents over a collection that replaces the record stored under an id
add_documents_Upsert(h, live, recs, documents, embedOk, addOutcome) ==
    IF documents = <<>> THEN Stored(TRUE, recs)
    ELSE LET batch == {Record(documents[i]) : i \in 1..Len(documents)}
         IN  IF ~embedOk \/ h # live \/ addOutcome = "error" THEN Stored(FALSE, recs)
             ELSE Stored(TRUE, {r \in recs : r.id \notin Ids(batch)} \cup batch)

\* ChromaVectorStore.add_documents on the handle h
add_documents(h, live, recs, documents, embedOk, addOutcome) ==
    IF documents = <<>> THEN Stored(TRUE, recs)
    ELSE LET batch == {Record(documents[i]) : i \in 1..Len(documents)}
         IN  IF ~embedOk \/ h # live \/ addOutcome = "error" THEN Stored(FALSE, recs)
             ELSE IF addOutcome = "strict" /\ Ids(batch) \cap Ids(recs) # {}
                  THEN Stored(FALSE, recs)
             ELSE Stored(TRUE, recs \cup {r \in batch : r.id \notin Ids(recs)})

\* ChromaVectorStore.get_collection_stats on the handle h: collection.count()
\* raises on a deleted collection (or when countOk is false), and the
\* exception is answered with a count of 0.
get_collection_stats(h, live, recs, countOk) ==
    IF h = live /\ countOk
    THEN [document_count |-> Cardinality(recs), collection_name |-> CollectionName]
    ELSE [document_count |-> 0, collection_name |-> CollectionName]

\* A total order on stored records: by file name, then by chunk_id.
NameRank(name) == IF name = NameA THEN 0 ELSE 1
RecKey(r) == 100 * NameRank(r.metadata.filename) + r.metadata.chunk_id

\* The records in ascending ("asc") or descending ("desc") order
Ordered(recs, order) ==
    LET key(r) == IF order = "asc" THEN RecKey(r) ELSE 0 - RecKey(r)
    IN  [j \in 1..Cardinality(recs) |->
            CHOOSE r \in recs : Cardinality({x \in recs : key(x) < key(r)}) = j - 1]

Min(a, b) == IF a < b THEN a ELSE b

\* ChromaVectorStore.similarity_search(query, k) on the handle h
similarity_search(h, live, recs, query, k, outcome) ==
    IF ~outcome.ok \/ h # live THEN Raised
    ELSE LET ranked == Ordered(recs, outcome.order)
         IN  Ok([i \in 1..Min(k, Len(ranked)) |->
                    [content |-> ranked[i].document,
                     metadata |-> ranked[i].metadata,
                     similarity_score |-> outcome.scores[i]]])

-----------------------------------------------------------------------------
(* Retrieval strategies.  Each takes the outcomes of the similarity         *)
(* searches it makes.                                                       *)

\* Descending, equal keys in the reverse of their order
SortDesc_TiesReversed(docs, keys) ==
    LET pos(i) == Cardinality({j \in 1..Len(docs) : keys[j] > keys[i]})
                  + Cardinality({j \in i + 1..Len(docs) : keys[j] = keys[i]}) + 1
    IN  [p \in 1..Len(docs) |-> docs[CHOOSE i \in 1..Len(docs) : pos(i) = p]]

\* sorted(docs, key, reverse=True): descending, equal keys in their order
SortDesc(docs, keys) ==
    LET pos(i) == Cardinality({j \in 1..Len(docs) : keys[j] > keys[i]})
                  + Cardinality({j \in 1..i - 1 : keys[j] = keys[i]}) + 1
    IN  [p \in 1..Len(docs) |-> docs[CHOOSE i \in 1..Len(docs) : pos(i) = p]]

\* docs[:n]
Take(docs, n) == SubSeq(docs, 1, Min(n, Len(docs)))

\* Basic retrieval answering a search that raised with a snippet it kept
Basic_retrieve_LastGood(s5) ==
    IF s5.ok THEN s5.val
    ELSE <<[content |-> Lit(<<"a">>),
            metadata |-> [filename |-> NameA, chunk_id |-> 0],
            similarity_score |-> 0]>>

\* BasicRetrieverStrategy.retrieve; s5: similarity_search(query, k=5)
Basic_retrieve(s5) == IF s5.ok THEN s5.val ELSE <<>>

\* A score as a fraction
Frac(num, den) == [num |-> num, den |-> den]

\* The weights swapped
keyword_results_Swapped(query, similarity_results) ==
    LET query_terms == SplitTerms(LowerStr(query))
        q == Cardinality(query_terms)
        overlap(doc) ==
            Cardinality(query_terms \cap SplitTerms(LowerStr(doc.content)))
        hybrid_score(doc) ==
            IF q # 0
            THEN Frac(3 * doc.similarity_score * q + 7 * 1000 * overlap(doc),
                      10 * 1000 * q)
            ELSE Frac(3 * doc.similarity_score, 10 * 1000)
    IN  [i \in 1..Len(similarity_results) |->
            DictUpdate(similarity_results[i],
                       [hybrid_score |-> hybrid_score(similarity_results[i])])]

\* The loop of HybridRetrieverStrategy.retrieve with weights 0.7 and 0.3:
\* every candidate with its hybrid_score =
\* 0.7 * similarity_score + 0.3 * keyword_score, in the order of the search.
\* The scores of one call have the same denominator.
keyword_results(query, similarity_results) ==
    LET query_terms == SplitTerms(LowerStr(query))
        q == Cardinality(query_terms)
        overlap(doc) ==
            Cardinality(query_terms \cap SplitTerms(LowerStr(doc.content)))
        hybrid_score(doc) ==
            IF q # 0
            THEN Frac(7 * doc.similarity_score * q + 3 * 1000 * overlap(doc),
                      10 * 1000 * q)
            ELSE Frac(7 * doc.similarity_score, 10 * 1000)
    IN  [i \in 1..Len(similarity_results) |->
            DictUpdate(similarity_results[i],
                       [hybrid_score |-> hybrid_score(similarity_results[i])])]

\* The candidates are returned in the order of the search
Hybrid_retrieve_NoSort(query, s8, s5) ==
    IF ~s8.ok THEN Basic_retrieve(s5)
    ELSE Take(keyword_results(query, s8.val), 5)

\* keyword_overlap / len(query_terms) without the test of query_terms: the
\* division raises for a query without terms, and Basic answers
Hybrid_retrieve_Division(query, s8, s5) ==
    IF ~s8.ok \/ (SplitTerms(LowerStr(query)) = {} /\ s8.val # <<>>)
    THEN Basic_retrieve(s5)
    ELSE LET scored == keyword_results(query, s8.val)
             keys == [i \in 1..Len(scored) |-> scored[i].hybrid_score.num]
         IN  Take(SortDesc(scored, keys), 5)

\* HybridRetrieverStrategy.retrieve;
\* s8: similarity_search(query, k=8), s5: the search of the Basic fallback.
Hybrid_retrieve(query, s8, s5) ==
    IF ~s8.ok THEN Basic_retrieve(s5)
    ELSE LET scored == keyword_results(query, s8.val)
             keys == [i \in 1..Len(scored) |-> scored[i].hybrid_score.num]
         IN  Take(SortDesc(scored, keys), 5)

S_Question == Lit(<<"?">>)
S_WhatIs == Lit(<<"w", "h", "a", "t", " ", "i", "s", " ">>)
Interrogatives ==
    { Lit(<<"w", "h", "a", "t">>), Lit(<<"h", "o", "w">>), Lit(<<"w", "h", "y">>),
      Lit(<<"w", "h", "e", "n">>), Lit(<<"w", "h", "e", "r", "e">>) }

\* Both variations are added whatever the query
expand_query_AlwaysBoth(query) ==
    <<query, Cat(query, S_Question), Cat(S_WhatIs, query)>>

\* ContextualRetrieverStrategy._expand_query
expand_query(query) ==
    <<query>>
    \o (IF ~EndsWithChar(query, "?") THEN <<Cat(query, S_Question)>> ELSE <<>>)
    \o (IF ~(\E w \in Interrogatives : StartsWith(LowerStr(query), w))
        THEN <<Cat(S_WhatIs, query)>> ELSE <<>>)

\* The first result of each content
deduplicate_results_WholeContent(results) ==
    LET first == {i \in 1..Len(results) :
                     \A j \in 1..i - 1 : results[j].content # results[i].content}
    IN  [p \in 1..Cardinality(first) |->
            results[CHOOSE i \in first : Cardinality({x \in first : x < i}) = p - 1]]

\* ContextualRetrieverStrategy._deduplicate_results: the first result of each
\* content[:100]
deduplicate_results(results) ==
    LET first == {i \in 1..Len(results) :
                     \A j \in 1..i - 1 :
                         Prefix(results[j].content, 100) # Prefix(results[i].content, 100)}
    IN  [p \in 1..Cardinality(first) |->
            results[CHOOSE i \in first : Cardinality({x \in first : x < i}) = p - 1]]

\* The results ranked against the "what is" variation of the query
rank_results_Expanded(results, original_query) ==
    LET query_terms == SplitTerms(LowerStr(Cat(S_WhatIs, original_query)))
        q == Cardinality(query_terms)
        scored == [i \in 1..Len(results) |->
                      DictUpdate(results[i],
                          [relevance_score |->
                              Frac(Cardinality(query_terms
                                      \cap SplitTerms(LowerStr(results[i].content))), q)])]
        keys == [i \in 1..Len(scored) |-> scored[i].relevance_score.num]
    IN  IF results # <<>> /\ SplitTerms(LowerStr(original_query)) = {} THEN Raised
        ELSE Ok(SortDesc(scored, keys))

\* _rank_results with the division guarded as in the Hybrid strategy
rank_results_Guarded(results, original_query) ==
    LET query_terms == SplitTerms(LowerStr(original_query))
        q == Cardinality(query_terms)
        scored == [i \in 1..Len(results) |->
                      DictUpdate(results[i],
                          [relevance_score |->
                              IF q = 0 THEN Frac(0, 1)
                              ELSE Frac(Cardinality(query_terms
                                      \cap SplitTerms(LowerStr(results[i].content))), q)])]
        keys == [i \in 1..Len(scored) |-> scored[i].relevance_score.num]
    IN  Ok(SortDesc(scored, keys))

\* ContextualRetrieverStrategy._rank_results; raises (ZeroDivisionError) when
\* there are results and the query has no term.
rank_results(results, original_query) ==
    LET query_terms == SplitTerms(LowerStr(original_query))
        q == Cardinality(query_terms)
        scored == [i \in 1..Len(results) |->
                      DictUpdate(results[i],
                          [relevance_score |->
                              Frac(Cardinality(query_terms
                                      \cap SplitTerms(LowerStr(results[i].content))), q)])]
        keys == [i \in 1..Len(scored) |-> scored[i].relevance_score.num]
    IN  IF results # <<>> /\ q = 0 THEN Raised
        ELSE Ok(SortDesc(scored, keys))

\* The results of several searches, one after the other
RECURSIVE Flatten(_)
Flatten(lists) == IF lists = <<>> THEN <<>> ELSE Head(lists) \o Flatten(Tail(lists))

\* The except clause returns the empty list
Contextual_retrieve_NoFallback(query, s3, s5) ==
    LET n == Len(expand_query(query))
    IN  IF \E i \in 1..n : ~s3[i].ok THEN <<>>
        ELSE LET all_results == Flatten([i \in 1..n |-> s3[i].val])
                 ranked_results == rank_results(deduplicate_results(all_results), query)
             IN  IF ~ranked_results.ok THEN <<>>
                 ELSE Take(ranked_results.val, 5)

\* ContextualRetrieverStrategy.retrieve; s3: the outcomes of
\* similarity_search(expanded_query, k=3), one for each expanded query,
\* s5: the search of the Basic fallback.
Contextual_retrieve(query, s3, s5) ==
    LET n == Len(expand_query(query))
    IN  IF \E i \in 1..n : ~s3[i].ok THEN Basic_retrieve(s5)
        ELSE LET all_results == Flatten([i \in 1..n |-> s3[i].val])
                 ranked_results == rank_results(deduplicate_results(all_results), query)
             IN  IF ~ranked_results.ok THEN Basic_retrieve(s5)
                 ELSE Take(ranked_results.val, 5)

\* strategy.retrieve(query, vector_store), given what the searches return
Strategy_retrieve(strategy, query, s8, s3, s5) ==
    CASE strategy = "basic" -> Basic_retrieve(s5)
      [] strategy = "hybrid" -> Hybrid_retrieve(query, s8, s5)
      [] strategy = "contextual" -> Contextual_retrieve(query, s3, s5)

\* A call vector_store.similarity_search(query, k)
Search(query, k) == [query |-> query, k |-> k]

\* The searches BasicRetrieverStrategy.retrieve makes
Basic_searches(query) == <<Search(query, 5)>>

\* The searches HybridRetrieverStrategy.retrieve makes: one with k=8, and
\* that of the Basic fallback when it raised.
Hybrid_searches(query, s8) ==
    <<Search(query, 8)>> \o (IF ~s8.ok THEN Basic_searches(query) ELSE <<>>)

\* The searches ContextualRetrieverStrategy.retrieve makes: one with k=3 for
\* each expanded query, in their order, up to the first that raises; and
\* that of the Basic fallback when one raised or _rank_results raised.
Contextual_searches(query, s3) ==
    LET expanded_queries == expand_query(query)
        n == Len(expanded_queries)
        failed == {i \in 1..n : ~s3[i].ok}
        made == IF failed = {} THEN n
                ELSE CHOOSE i \in failed : \A j \in failed : i <= j
        all_results == Flatten([i \in 1..n |-> s3[i].val])
        fallback == \/ failed # {}
                    \/ ~rank_results(deduplicate_results(all_results), query).ok
    IN  [i \in 1..made |-> Search(expanded_queries[i], 3)]
        \o (IF fallback THEN Basic_searches(query) ELSE <<>>)

\* The searches strategy.retrieve(query, vector_store) makes
Strategy_searches(strategy, query, s8, s3) ==
    CASE strategy = "basic" -> Basic_searches(query)
      [] strategy = "hybrid" -> Hybrid_searches(query, s8)
      [] strategy = "contextual" -> Contextual_searches(query, s3)

\* retriever.retrieve(query, vector_store) for the strategy built by the
\* factory; o: the outcomes of the searches (o.s8, o.s3[1..3], o.s5).
retrieve(strategy, query, h, live, recs, o) ==
    LET search(k, outcome) == similarity_search(h, live, recs, query, k, outcome)
    IN  Strategy_retrieve(strategy, query, search(8, o.s8),
                          [i \in 1..3 |-> search(3, o.s3[i])], search(5, o.s5))

\* No search returns
NoSearches == [s8 |-> Raised, s3 |-> <<Raised, Raised, Raised>>, s5 |-> Raised]

\* retrieve not called
NoRetrieved == [out |-> <<>>, calls |-> <<>>, done |-> FALSE]

SearchFails == [ok |-> FALSE, order |-> "asc", scores |-> <<>>]
SearchAsc ==
    [ok |-> TRUE, order |-> "asc", scores |-> <<900, 800, 700, 600, 500, 400, 300, 200, 100>>]
SearchDesc ==
    [ok |-> TRUE, order |-> "desc", scores |-> <<500, 500, 500, 500, 500, 500, 500, 500, 500>>]

\* What the embedding model and collection.query may do on one search: raise,
\* or rank the records in some order at some distances.  similarity_score
\* (1 - distance) is counted in thousandths.
SearchOutcomes == {SearchFails, SearchAsc, SearchDesc}

\* The outcomes of the searches a strategy may make: of the k=8 search of
\* Hybrid (s8), of the k=3 searches of Contextual (s3) and of the k=5 search
\* of Basic (s5).  A search that is not made has no outcome to choose.
RetrieveEnvs(strategy) ==
    [s8 : IF strategy = "hybrid" THEN SearchOutcomes ELSE {SearchFails},
     s3 : IF strategy = "contextual"
          THEN { <<SearchAsc, SearchAsc, SearchAsc>>, <<SearchAsc, SearchDesc, SearchAsc>>,
                 <<SearchDesc, SearchDesc, SearchDesc>>, <<SearchAsc, SearchFails, SearchAsc>>,
                 <<SearchFails, SearchFails, SearchFails>> }
          ELSE {<<SearchFails, SearchFails, SearchFails>>},
     s5 : SearchOutcomes]

-----------------------------------------------------------------------------
(* The agent (PDFQAAgent).  An operation is called from Ready, runs through *)
(* its steps and returns to Ready with its outcome in ret.                  *)

\* The outcome of an operation: whether an exception left it (raised), or
\* the value it returned: a boolean (flag), a stats record (stats), a string
\* or the fragments of a stream (text).
NoStats == [document_count |-> 0, collection_name |-> ""]
Outcome(op, escaped, flag, stats, text) ==
    [op |-> op, raised |-> escaped, flag |-> flag, stats |-> stats, text |-> text]
ReturnBool(op, b) == Outcome(op, FALSE, b, NoStats, <<>>)
ReturnStats(op, record) == Outcome(op, FALSE, FALSE, record, <<>>)
ReturnText(op, text) == Outcome(op, FALSE, FALSE, NoStats, text)
Escaped(op) == Outcome(op, TRUE, FALSE, NoStats, <<>>)
NoRet == Outcome("none", FALSE, FALSE, NoStats, <<>>)
NoArg == <<>>

\* The value None
None == <<Run("None", 0)>>

\* No report yet
NoName == ""

\* The state of the agent of the spec's state machine
Phase ==
    CASE pc \in {"Ready", "Returned"} -> "Ready"
      [] pc \in {"Ingest_pipeline", "Ingest_store"} -> "Ingesting"
      [] pc \in {"Stats"} -> "Reporting"
      [] pc \in {"Clear_delete", "Clear_reinit"} -> "Clearing"
      [] OTHER -> "Answering"

\* An operation is called on the Ready agent: it starts at p with argument a.
Begin(p, a) ==
    /\ pc = "Ready"
    /\ pc' = p
    /\ arg' = a
    /\ UNCHANGED <<built, raceVars, handle, ret, raised, opVars, histVars, dbVars,
                   chunkVars, retrVars>>

\* The caller of the operation that has returned goes on with its outcome;
\* the agent waits for the next call.
Resume ==
    /\ pc = "Returned"
    /\ pc' = "Ready"
    /\ ret' = NoRet
    /\ raised' = {}
    /\ pdfChunks' = <<>>
    /\ addArg' = None
    /\ relevant_docs' = None
    /\ llmCalls' = <<>>
    /\ response_parts' = <<>>
    /\ streamed' = <<>>
    /\ searchedDuring' = ""
    /\ cleared' = (ret = ReturnBool("clear", TRUE))
    /\ reported' = IF ret.op = "stats" THEN ret.stats.collection_name ELSE reported
    /\ UNCHANGED <<built, clearPc, handle, arg, dbVars, chunkVars, retrVars>>

\* clear_knowledge_base never gives the agent back
Finish_ClearHangs(outcome) ==
    /\ pc' = IF outcome.op = "clear" THEN "Clearing" ELSE "Returned"
    /\ ret' = outcome
    /\ arg' = NoArg

\* The operation in progress ends with this outcome.
Finish(outcome) ==
    /\ pc' = "Returned"
    /\ ret' = outcome
    /\ arg' = NoArg

\* await agent.process_pdf(file_path)
CallProcessPdf ==
    \E f \in Files : Begin("Ingest_pipeline", f)

\* process_pdf without the check for an empty chunk list
IngestPipeline_NoEmptyCheck ==
    /\ pc = "Ingest_pipeline"
    /\ \E run \in PipelineRuns(arg, chunking) :
          LET r == run.outcome
          IN  IF r.ok
              THEN /\ pdfChunks' = r.val
                   /\ pc' = "Ingest_store"
                   /\ UNCHANGED <<arg, ret, raised>>
              ELSE /\ Finish(ReturnBool("process_pdf", FALSE))
                   /\ raised' = IF ~run.extracted THEN {"extract"} ELSE {"chunk"}
                   /\ UNCHANGED pdfChunks
    /\ UNCHANGED <<built, raceVars, handle, addArg, relevant_docs, llmCalls,
                   response_parts, streamed, histVars, dbVars, chunkVars, retrVars>>

\* process_pdf, up to the call of add_documents
IngestPipeline ==
    /\ pc = "Ingest_pipeline"
    /\ \E run \in PipelineRuns(arg, chunking) :
          LET r == run.outcome
          IN  IF r.ok /\ r.val # <<>>
              THEN /\ pdfChunks' = r.val
                   /\ pc' = "Ingest_store"
                   /\ UNCHANGED <<arg, ret, raised>>
              ELSE /\ Finish(ReturnBool("process_pdf", FALSE))
                   /\ raised' = IF r.ok THEN {}
                                ELSE IF ~run.extracted THEN {"extract"}
                                ELSE {"chunk"}
                   /\ UNCHANGED pdfChunks
    /\ UNCHANGED <<built, raceVars, handle, addArg, relevant_docs, llmCalls,
                   response_parts, streamed, histVars, dbVars, chunkVars, retrVars>>

\* process_pdf, from the call of add_documents
IngestStore ==
    /\ pc = "Ingest_store"
    /\ \E embedOk \in BOOLEAN, addOutcome \in AddOutcomes :
          LET r == add_documents(handle, dbLive, dbRecs, pdfChunks, embedOk, addOutcome)
          IN  /\ dbRecs' = r.recs
              /\ raised' = IF r.ok THEN {} ELSE {"store"}
              /\ Finish(ReturnBool("process_pdf", r.ok))
    /\ addArg' = pdfChunks
    /\ UNCHANGED <<built, raceVars, handle, pdfChunks, relevant_docs, llmCalls,
                   response_parts, streamed, histVars, dbLive, dbMade, chunkVars, retrVars>>

\* agent.get_knowledge_base_stats()
CallStats ==
    Begin("Stats", NoArg)

\* The fallback record whatever the store answers
get_knowledge_base_stats_Fallback(h, live, recs, countOk) ==
    [document_count |-> 0, collection_name |-> "unknown"]

\* PDFQAAgent.get_knowledge_base_stats: get_collection_stats does not raise
get_knowledge_base_stats(h, live, recs, countOk) ==
    LET r == Ok(get_collection_stats(h, live, recs, countOk))
    IN  IF r.ok THEN r.val
        ELSE [document_count |-> 0, collection_name |-> "unknown"]

StatsBody ==
    /\ pc = "Stats"
    /\ \E countOk \in BOOLEAN :
          /\ Finish(ReturnStats("stats", get_knowledge_base_stats(handle, dbLive, dbRecs,
                                                               countOk)))
          /\ raised' = IF handle = dbLive /\ countOk THEN {} ELSE {"count"}
    /\ UNCHANGED <<built, raceVars, handle, opVars, histVars, dbVars, chunkVars, retrVars>>

\* agent.clear_knowledge_base()
CallClear ==
    /\ dbMade < MaxCollections
    /\ Begin("Clear_delete", NoArg)

\* clear_knowledge_base without the deletion
ClearDelete_Skip ==
    /\ pc = "Clear_delete"
    /\ pc' = "Clear_reinit"
    /\ UNCHANGED <<built, raceVars, handle, arg, ret, raised, opVars, histVars,
                   dbVars, chunkVars, retrVars>>

\* self.vector_store.delete_collection(): client.delete_collection(name)
\* raises when no collection of that name exists.
ClearDelete ==
    /\ pc = "Clear_delete"
    /\ \E deleteOk \in BOOLEAN :
          IF deleteOk /\ dbLive # 0
          THEN /\ dbLive' = 0
               /\ dbRecs' = {}
               /\ pc' = "Clear_reinit"
               /\ UNCHANGED <<arg, ret, raised>>
          ELSE /\ Finish(ReturnBool("clear", FALSE))
               /\ raised' = {"delete"}
               /\ UNCHANGED <<dbLive, dbRecs>>
    /\ UNCHANGED <<built, raceVars, handle, opVars, histVars, dbMade, chunkVars, retrVars>>

\* self.vector_store = ChromaVectorStore(): get_or_create_collection creates
\* the collection anew; the assignment happens only if the constructor
\* returns.
ClearReinit ==
    /\ pc = "Clear_reinit"
    /\ \E initOk \in BOOLEAN :
          IF initOk
          THEN /\ IF dbLive = 0
                  THEN /\ dbMade' = dbMade + 1
                       /\ dbLive' = dbMade + 1
                       /\ dbRecs' = {}
                  ELSE UNCHANGED dbVars
               /\ handle' = dbLive'
               /\ raised' = {}
               /\ Finish(ReturnBool("clear", TRUE))
          ELSE /\ Finish(ReturnBool("clear", FALSE))
               /\ raised' = {"init"}
               /\ UNCHANGED <<handle, dbVars>>
    /\ UNCHANGED <<built, raceVars, opVars, histVars, chunkVars, retrVars>>

\* The sentence answered when nothing was retrieved
S_NoInfo ==
    Lit(<<
          "I", " ", "c", "o", "u", "l", "d", "n", "'", "t", " ", "f",
          "i", "n", "d", " ", "a", "n", "y", " ", "r", "e", "l", "e",
          "v", "a", "n", "t", " ", "i", "n", "f", "o", "r", "m", "a",
          "t", "i", "o", "n", " ", "i", "n", " ", "t", "h", "e", " ",
          "k", "n", "o", "w", "l", "e", "d", "g", "e", " ", "b", "a",
          "s", "e", " ", "t", "o", " ", "a", "n", "s", "w", "e", "r",
          " ", "y", "o", "u", "r", " ", "q", "u", "e", "s", "t", "i",
          "o", "n", ".">>)

S_ErrorOccurred ==
    Lit(<<
          "A", "n", " ", "e", "r", "r", "o", "r", " ", "o", "c", "c",
          "u", "r", "r", "e", "d", " ", "w", "h", "i", "l", "e", " ",
          "p", "r", "o", "c", "e", "s", "s", "i", "n", "g", " ", "y",
          "o", "u", "r", " ", "q", "u", "e", "s", "t", "i", "o", "n",
          ":", " ">>)

\* f"Error: {str(e)}" of generate_response
S_Error == Lit(<<"E", "r", "r", "o", "r", ":", " ">>)

\* str(e) of the TypeError raised by None[:100]
S_NotSubscriptable ==
    Lit(<<
          "'", "N", "o", "n", "e", "T", "y", "p", "e", "'", " ", "o",
          "b", "j", "e", "c", "t", " ", "i", "s", " ", "n", "o", "t",
          " ", "s", "u", "b", "s", "c", "r", "i", "p", "t", "a", "b",
          "l", "e">>)

S_DocumentN == Lit(<<"\n", "D", "o", "c", "u", "m", "e", "n", "t", " ">>)
S_Source == Lit(<<":", "\n", "S", "o", "u", "r", "c", "e", ":", " ">>)
S_RelevanceScore ==
    Lit(<<
          "\n", "R", "e", "l", "e", "v", "a", "n", "c", "e", " ", "S",
          "c", "o", "r", "e", ":", " ">>)
S_Content == Lit(<<"\n", "C", "o", "n", "t", "e", "n", "t", ":", " ">>)
S_Delimiter == Lit(<<"\n", "-", "-", "-", "\n">>)
S_Dot == Lit(<<".">>)
S_Minus == Lit(<<"-">>)

\* f"{x:.3f}" of a score of t thousandths
Fixed3(t) ==
    LET a == IF t < 0 THEN 0 - t ELSE t
        digit(d) == <<Run(Digits[d + 1], 1)>>
        frac == Cat(Cat(digit((a \div 100) % 10), digit((a \div 10) % 10)), digit(a % 10))
    IN  Cat(IF t < 0 THEN S_Minus ELSE EmptyStr,
            Cat(Cat(IntStr(a \div 1000), S_Dot), frac))

\* The documents are numbered from 0
prepare_context_ZeroBased(docs) ==
    LET context_part(i) ==
            LET metadata == docs[i].metadata
                content == docs[i].content
                similarity_score ==
                    IF "similarity_score" \in DOMAIN docs[i]
                    THEN docs[i].similarity_score ELSE 0
                filename == IF "filename" \in DOMAIN metadata
                            THEN metadata.filename ELSE S_Unknown
            IN  Cat(Cat(Cat(Cat(Cat(Cat(Cat(Cat(S_DocumentN, IntStr(i - 1)), S_Source),
                    filename), S_RelevanceScore), Fixed3(similarity_score)), S_Content),
                    content), S_Delimiter)
    IN  Join(S_Newline, [i \in 1..Len(docs) |-> context_part(i)])

\* PDFQAAgent._prepare_context
prepare_context(docs) ==
    LET context_part(i) ==
            LET metadata == docs[i].metadata
                content == docs[i].content
                similarity_score ==
                    IF "similarity_score" \in DOMAIN docs[i]
                    THEN docs[i].similarity_score ELSE 0
                filename == IF "filename" \in DOMAIN metadata
                            THEN metadata.filename ELSE S_Unknown
            IN  Cat(Cat(Cat(Cat(Cat(Cat(Cat(Cat(S_DocumentN, IntStr(i)), S_Source), filename),
                    S_RelevanceScore), Fixed3(similarity_score)), S_Content), content),
                    S_Delimiter)
    IN  Join(S_Newline, [i \in 1..Len(docs) |-> context_part(i)])

\* str(e) of the exceptions raised by the collaborators
ErrorMessages == {EmptyStr, Lit(<<"E">>)}

\* What assembling the context may do: return, or raise (with message val)
ContextOutcomes == {Ok(EmptyStr)} \cup {[ok |-> FALSE, val |-> m] : m \in ErrorMessages}

\* Whether a similarity search made by retrieve raised
SearchRaised(strategy, query, h, live, recs, o) ==
    LET bad(outcome) == ~outcome.ok \/ h # live
        n == Len(expand_query(query))
        merged == Flatten([i \in 1..n |->
                      similarity_search(h, live, recs, query, 3, o.s3[i]).val])
    IN  CASE strategy = "basic" -> bad(o.s5)
          [] strategy = "hybrid" -> bad(o.s8)
          [] strategy = "contextual" ->
                \/ \E i \in 1..n : bad(o.s3[i])
                \/ /\ ~rank_results(deduplicate_results(merged), query).ok
                   /\ bad(o.s5)

Questions == {EmptyStr, Lit(<<"c">>), None}

AskOp == IF arg.stream THEN "ask_question_stream" ELSE "ask_question"

\* The operation ends with these fragments: ask_question returns them joined,
\* ask_question_stream has yielded them one by one.
FinishAsk(fragments) ==
    Finish(ReturnText(AskOp, IF arg.stream THEN fragments ELSE Join(EmptyStr, fragments)))

\* await agent.ask_question(question), or the consumer starting the
\* iteration of agent.ask_question_stream(question)
CallAsk ==
    \E q \in Questions, stream \in BOOLEAN :
        Begin("Ask_retrieve", [question |-> q, stream |-> stream])

\* What the body of ask_question / ask_question_stream comes to before the
\* LLM is called: fragments answered at once (reply), or calls of
\* generate_response; ok is false if an exception leaves the operation.
Answered(reply, what) == [ok |-> TRUE, reply |-> reply, calls |-> <<>>, raised |-> what]
Generating(question, context) ==
    [ok |-> TRUE, reply |-> <<>>,
     calls |-> <<[prompt |-> question, context |-> context]>>, raised |-> {}]
Propagated(what) == [ok |-> FALSE, reply |-> <<>>, calls |-> <<>>, raised |-> what]

\* The LLM is called whatever was retrieved
ask_body_NoEmptyCheck(question, docs, ctx) ==
    IF ~ctx.ok THEN Answered(<<Cat(S_ErrorOccurred, ctx.val)>>, {"context"})
    ELSE Generating(question, prepare_context(docs))

\* The exception of the context assembly is not caught
ask_body_NoHandler(question, docs, ctx) ==
    IF docs = <<>> THEN Answered(<<S_NoInfo>>, {})
    ELSE IF ~ctx.ok THEN Propagated({"context"})
    ELSE Generating(question, prepare_context(docs))

\* The try block of ask_question / ask_question_stream from the check of
\* relevant_docs to the call of generate_response, with its except clause.
ask_body(question, docs, ctx) ==
    IF docs = <<>> THEN Answered(<<S_NoInfo>>, {})
    ELSE IF ~ctx.ok THEN Answered(<<Cat(S_ErrorOccurred, ctx.val)>>, {"context"})
    ELSE Generating(question, prepare_context(docs))

\* ask_question / ask_question_stream from the entry to the return of
\* retriever.retrieve: question[:100] raises on None, and the except clause
\* answers.
AskRetrieve ==
    /\ pc = "Ask_retrieve"
    /\ IF arg.question = None
       THEN /\ FinishAsk(<<Cat(S_ErrorOccurred, S_NotSubscriptable)>>)
            /\ raised' = {"question"}
            /\ UNCHANGED <<relevant_docs, searchedDuring>>
       ELSE /\ pc' = "Ask_answer"
            /\ searchedDuring' = clearPc
            /\ \E o \in RetrieveEnvs(retrieval) :
                  /\ relevant_docs' =
                        retrieve(retrieval, arg.question, handle, dbLive, dbRecs, o)
                  /\ raised' = IF SearchRaised(retrieval, arg.question, handle, dbLive,
                                               dbRecs, o)
                               THEN {"search"} ELSE {}
            /\ UNCHANGED <<arg, ret>>
    /\ UNCHANGED <<built, clearPc, handle, pdfChunks, addArg, llmCalls,
                   response_parts, streamed, histVars, dbVars, chunkVars, retrVars>>

\* ask_question / ask_question_stream from the check of relevant_docs to the
\* call of llm_service.generate_response
AskAnswer ==
    /\ pc = "Ask_answer"
    /\ \E ctx \in ContextOutcomes :
          LET r == ask_body(arg.question, relevant_docs, ctx)
          IN  /\ raised' = raised \cup r.raised
              /\ llmCalls' = r.calls
              /\ IF ~r.ok THEN Finish(Escaped(AskOp))
                 ELSE IF r.calls = <<>> THEN FinishAsk(r.reply)
                 ELSE /\ pc' = "Ask_generate"
                      /\ UNCHANGED <<arg, ret>>
    /\ UNCHANGED <<built, raceVars, handle, pdfChunks, addArg, relevant_docs,
                   response_parts, streamed, histVars, dbVars, chunkVars, retrVars>>

\* chunk.content of the chunk the model streams after n others: nothing, or
\* a text that differs from that of the chunk before
ChunkContents(n) == {EmptyStr, IF n % 2 = 0 THEN Lit(<<"o", "k">>) ELSE Lit(<<"!">>)}

\* generate_response handing the fragments over last first
LLMChunk_Prepends ==
    /\ pc = "Ask_generate"
    /\ Len(streamed) < MaxFragments
    /\ \E content \in ChunkContents(Len(streamed)) :
          /\ streamed' = Append(streamed, content)
          /\ response_parts' = IF content # EmptyStr THEN <<content>> \o response_parts
                               ELSE response_parts
    /\ UNCHANGED <<built, raceVars, handle, pc, arg, ret, raised, pdfChunks, addArg,
                   relevant_docs, llmCalls, histVars, dbVars, chunkVars, retrVars>>

\* generate_response: the model streams one more chunk; a chunk without
\* content is not yielded.
LLMChunk ==
    /\ pc = "Ask_generate"
    /\ Len(streamed) < MaxFragments
    /\ \E content \in ChunkContents(Len(streamed)) :
          /\ streamed' = Append(streamed, content)
          /\ response_parts' = IF content # EmptyStr THEN Append(response_parts, content)
                               ELSE response_parts
    /\ UNCHANGED <<built, raceVars, handle, pc, arg, ret, raised, pdfChunks, addArg,
                   relevant_docs, llmCalls, histVars, dbVars, chunkVars, retrVars>>

\* generate_response: the stream of the model ends, and so does the operation
LLMEnd ==
    /\ pc = "Ask_generate"
    /\ FinishAsk(response_parts)
    /\ UNCHANGED <<built, raceVars, handle, raised, opVars, histVars, dbVars,
                   chunkVars, retrVars>>

\* generate_response without its except clause: the exception reaches the
\* except clause of ask_question / ask_question_stream
LLMFail_NotCaught ==
    /\ pc = "Ask_generate"
    /\ \E m \in ErrorMessages :
          /\ response_parts' = Append(response_parts, Cat(S_ErrorOccurred, m))
          /\ FinishAsk(IF arg.stream THEN response_parts'
                       ELSE <<Cat(S_ErrorOccurred, m)>>)
    /\ raised' = raised \cup {"llm"}
    /\ UNCHANGED <<built, raceVars, handle, pdfChunks, addArg, relevant_docs,
                   llmCalls, streamed, histVars, dbVars, chunkVars, retrVars>>

\* generate_response: the call of the model raises; the adapter yields the
\* error text and ends, and so does the operation
LLMFail ==
    /\ pc = "Ask_generate"
    /\ \E m \in ErrorMessages :
          /\ response_parts' = Append(response_parts, Cat(S_Error, m))
          /\ FinishAsk(response_parts')
    /\ raised' = raised \cup {"llm"}
    /\ UNCHANGED <<built, raceVars, handle, pdfChunks, addArg, relevant_docs,
                   llmCalls, streamed, histVars, dbVars, chunkVars, retrVars>>

RetrievalTags == {"basic", "hybrid", "contextual"}

\* A factory that builds the Hybrid strategy for a tag it does not know
create_retriever_HybridDefault(strategy_type) ==
    IF strategy_type \notin RetrievalTags THEN "hybrid" ELSE strategy_type

\* RetrieverFactory.create_retriever: the strategy built for a tag
create_retriever(strategy_type) ==
    IF strategy_type \notin RetrievalTags THEN "basic" ELSE strategy_type

\* The (chunking, retrieval) tags agents are constructed with
AgentTags ==
    { <<"hybrid", "hybrid">>, <<"recursive", "basic">>, <<"semantic", "contextual">>,
      <<"contextual", "basic">>, <<"other", "other">> }

NoEnv == [sem |-> Raised, rec |-> Raised, fb |-> Raised]

ChunkIdle ==
    /\ cStrategy = "recursive"
    /\ cText = EmptyStr
    /\ cMeta = [filename |-> NameA]
    /\ cEnv = NoEnv
    /\ cRes = NoResult

\* PDFQAAgent(chunking_strategy, retrieval_strategy) over an empty database
AgentInit ==
    /\ tags \in AgentTags
    /\ chunking = create_strategy(tags[1])
    /\ retrieval = create_retriever(tags[2])
    /\ clearPc = "none"
    /\ searchedDuring = ""
    /\ dbMade = 1
    /\ dbLive = 1
    /\ dbRecs = {}
    /\ handle = 1
    /\ pc = "Ready"
    /\ arg = NoArg
    /\ ret = NoRet
    /\ raised = {}
    /\ pdfChunks = <<>>
    /\ addArg = None
    /\ relevant_docs = None
    /\ llmCalls = <<>>
    /\ response_parts = <<>>
    /\ streamed = <<>>
    /\ cleared = FALSE
    /\ reported = NoName

RetrIdle ==
    /\ rStrategy = "basic"
    /\ rQuery = EmptyStr
    /\ rEnv = NoSearches
    /\ rRes = NoRetrieved

Init == AgentInit /\ ChunkIdle /\ RetrIdle

Next ==
    \/ CallProcessPdf \/ IngestPipeline \/ IngestStore
    \/ CallStats \/ StatsBody
    \/ CallClear \/ ClearDelete \/ ClearReinit
    \/ CallAsk \/ AskRetrieve \/ AskAnswer \/ LLMChunk \/ LLMEnd \/ LLMFail
    \/ Resume

Spec == Init /\ [][Next]_vars

\* The steps of the operation in progress.  Each is a step of a coroutine the
\* event loop keeps running, or the return of an external call.
Steps ==
    \/ IngestPipeline \/ IngestStore \/ StatsBody \/ ClearDelete \/ ClearReinit
    \/ AskRetrieve \/ AskAnswer \/ LLMChunk \/ LLMEnd \/ LLMFail

\* The agent when every external call returns or raises and every stream ends
FairSpec == Spec /\ WF_vars(Steps)

-----------------------------------------------------------------------------
(* The agent with a clear_knowledge_base called from another thread while   *)
(* it answers questions.  retriever.retrieve is one step of the ask: every   *)
(* search of a call uses the vector store object read at the call, and a    *)
(* search on a deleted collection raises whenever it is made.               *)

\* agent.clear_knowledge_base() is called from the other thread
RaceClearCall ==
    /\ clearPc = "none"
    /\ dbMade < MaxCollections
    /\ Phase \in {"Ready", "Answering"}
    /\ clearPc' = "delete"
    /\ UNCHANGED <<agentVars, dbVars, chunkVars, retrVars, searchedDuring>>

\* self.vector_store.delete_collection() in the other thread
RaceClearDelete ==
    /\ clearPc = "delete"
    /\ \E deleteOk \in BOOLEAN :
          IF deleteOk /\ dbLive # 0
          THEN /\ dbLive' = 0
               /\ dbRecs' = {}
               /\ clearPc' = "reinit"
          ELSE /\ clearPc' = "false"
               /\ UNCHANGED <<dbLive, dbRecs>>
    /\ UNCHANGED <<agentVars, dbMade, chunkVars, retrVars, searchedDuring>>

\* self.vector_store = ChromaVectorStore() in the other thread, and the
\* return of clear_knowledge_base
RaceClearReinit ==
    /\ clearPc = "reinit"
    /\ \E initOk \in BOOLEAN :
          IF initOk
          THEN /\ IF dbLive = 0
                  THEN /\ dbMade' = dbMade + 1
                       /\ dbLive' = dbMade + 1
                       /\ dbRecs' = {}
                  ELSE UNCHANGED dbVars
               /\ handle' = dbLive'
               /\ clearPc' = "true"
          ELSE /\ clearPc' = "false"
               /\ UNCHANGED <<handle, dbVars>>
    /\ UNCHANGED <<built, pc, arg, ret, raised, opVars, histVars, chunkVars, retrVars,
                   searchedDuring>>

\* await agent.process_pdf(file_path), while no clear is running
RaceCallProcessPdf ==
    /\ clearPc \in {"none", "true", "false"}
    /\ CallProcessPdf

RaceNext ==
    \/ RaceClearCall \/ RaceClearDelete \/ RaceClearReinit
    \/ RaceCallProcessPdf \/ IngestPipeline \/ IngestStore
    \/ CallAsk \/ AskRetrieve \/ AskAnswer \/ LLMChunk \/ LLMEnd \/ LLMFail
    \/ Resume

SpecRace == Init /\ [][RaceNext]_vars

-----------------------------------------------------------------------------
(* Claims about the agent (checked under Spec, C7 under FairSpec) *)

AskDone == pc = "Returned" /\ ret.op \in {"ask_question", "ask_question_stream"}
IngestDone == pc = "Returned" /\ ret.op = "process_pdf"
StatsDone == pc = "Returned" /\ ret.op = "stats"
ClearDone == pc = "Returned" /\ ret.op = "clear"

\* A Python str (and not None)
IsStr(v) == \A i \in 1..Len(v) : v[i].n >= 1

\* C1: whenever the retriever returns the empty sequence, ask_question
\* returns exactly the fixed sentence, ask_question_stream yields exactly
\* that one fragment and ends, and generate_response is never called.
C1_EmptyRetrieval ==
    (relevant_docs = <<>>) =>
        /\ llmCalls = <<>>
        /\ pc \in {"Returned", "Ask_answer"}
        /\ AskDone => /\ ~ret.raised
                      /\ ret.op = "ask_question" => ret.text = S_NoInfo
                      /\ ret.op = "ask_question_stream" => ret.text = <<S_NoInfo>>

\* A streamed question got the fixed sentence from a knowledge base that
\* holds records, because the similarity search raised.
C1_Witness ==
    /\ AskDone /\ relevant_docs = <<>>
    /\ ret = ReturnText("ask_question_stream", <<S_NoInfo>>)
    /\ dbRecs # {} /\ "search" \in raised

\* C2: no exception escapes ask_question or ask_question_stream, whatever
\* fails: ask_question returns a string, ask_question_stream ends after
\* yielding strings, and a failure that reaches the except clause of the
\* operation (a question that cannot be sliced, a failing context assembly)
\* is answered with a text beginning "An error occurred while processing
\* your question: ".
C2_AskNeverRaises ==
    AskDone =>
        /\ ~ret.raised
        /\ ret.op = "ask_question" => IsStr(ret.text)
        /\ ret.op = "ask_question_stream" =>
              \A i \in 1..Len(ret.text) : IsStr(ret.text[i])
        /\ (raised \cap {"question", "context"} # {}) =>
              /\ ret.text # <<>>
              /\ StartsWith(IF ret.op = "ask_question" THEN ret.text
                            ELSE ret.text[Len(ret.text)], S_ErrorOccurred)

\* A similarity search raised, the retriever fell back and found snippets,
\* and the context assembly raised.
C2_Witness ==
    /\ AskDone /\ ret.op = "ask_question"
    /\ raised = {"search", "context"}
    /\ StrLen(ret.text) > StrLen(S_ErrorOccurred)

\* C3: process_pdf never raises; with zero chunks (or a failed pipeline) it
\* returns False without calling add_documents and the stored records are
\* unchanged; it returns False when extraction, chunking or storage fails;
\* it returns True only after add_documents was called with the chunks the
\* pipeline produced; and it always gives the Ready agent back.
C3_ProcessPdf ==
    [][(pc \in {"Ingest_pipeline", "Ingest_store"} /\ pc' # "Ingest_store") =>
          /\ pc' = "Returned"
          /\ ret'.op = "process_pdf" /\ ~ret'.raised
          /\ (pdfChunks' = <<>>) =>
                (~ret'.flag /\ addArg' = None /\ dbRecs' = dbRecs)
          /\ (raised' # {}) => ~ret'.flag
          /\ ret'.flag => (pdfChunks' # <<>> /\ addArg' = pdfChunks')
          /\ <<handle', chunking', retrieval'>> = <<handle, chunking, retrieval>>
      ]_vars

\* A file without text was processed over a knowledge base that holds
\* records: zero chunks, False, nothing raised.
C3_Witness ==
    /\ IngestDone /\ ~ret.flag
    /\ raised = {} /\ pdfChunks = <<>> /\ addArg = None
    /\ dbRecs # {}

\* C4: when clear_knowledge_base returned True, the get_knowledge_base_stats
\* that follows it returns document_count 0 and the collection_name that the
\* last report before it carried.
C4_StatsAfterClear ==
    (StatsDone /\ cleared) =>
        /\ ret.stats.document_count = 0
        /\ ret.stats.collection_name = CollectionName
        /\ reported # NoName => ret.stats.collection_name = reported

\* Stats was reported, the knowledge base was cleared into a second
\* collection, and stats was reported again.
C4_Witness ==
    /\ StatsDone /\ cleared
    /\ reported = CollectionName
    /\ dbMade = 2 /\ handle = 2 /\ raised = {}

\* C5: after clear_knowledge_base has returned, True or False, the handle of
\* the agent refers to the live collection, never to a deleted one.
C5_HandleNeverStale ==
    ClearDone => handle = dbLive

\* C6: get_knowledge_base_stats never raises; when the store can count, it
\* returns the count of the store with the configured collection name; when
\* counting fails, it returns a record with document_count 0.
C6_StatsNeverRaises ==
    StatsDone =>
        /\ ~ret.raised
        /\ "count" \notin raised =>
              ret.stats = [document_count |-> Cardinality(dbRecs),
                         collection_name |-> CollectionName]
        /\ "count" \in raised => ret.stats.document_count = 0

\* The count of a knowledge base that holds records failed.
C6_Witness ==
    /\ StatsDone /\ "count" \in raised
    /\ handle = dbLive /\ dbRecs # {}
    /\ ret.stats.document_count = 0

\* C7: every operation called on the Ready agent completes and leaves the
\* agent Ready, whatever the collaborators do: in no behaviour does the agent
\* stay forever in an operation, so it is Ready again and again.
C7_OperationsComplete == []<>(Phase = "Ready")

\* A streamed question ended after the model had streamed its chunks and
\* then failed.
C7_Witness ==
    /\ AskDone /\ ret.op = "ask_question_stream"
    /\ "llm" \in raised /\ Len(ret.text) = MaxFragments + 1

-----------------------------------------------------------------------------
(* The retrieval strategies applied to bounded inputs *)

\* A snippet as similarity_search formats it; the score in thousandths
Snippet(content, name, chunk_id, score) ==
    [content |-> content,
     metadata |-> [filename |-> name, chunk_id |-> chunk_id],
     similarity_score |-> score]

\* Contents: Long1 and Long2 are distinct and agree on their first 100
\* characters, Long3 differs from them at the 100th.
Long1 == <<Run("z", 100), Run(" ", 1), Run("a", 1)>>
Long2 == <<Run("z", 100), Run(" ", 1), Run("b", 1)>>
Long3 == <<Run("z", 99), Run(" ", 1), Run("a", 1)>>

D1 == Snippet(Lit(<<"x", " ", "y">>), NameA, 0, 900)
D2 == Snippet(Lit(<<"a">>), NameA, 1, 800)
D3 == Snippet(Lit(<<"b">>), NameA, 2, 800)
D4 == Snippet(Lit(<<"x", " ", "y">>), NameB, 0, 700)
D5 == Snippet(Lit(<<"A", " ", "\n", "b">>), NameB, 1, 600)
D6 == Snippet(Long1, NameB, 2, 500)
D7 == Snippet(Long2, NameB, 3, 500)
D8 == Snippet(Lit(<<"a", " ", "b", " ", "a">>), NameB, 4, 0 - 100)
D9 == Snippet(Long3, NameB, 5, 300)

\* What a search with k=8 may return
Found8 == { <<>>, <<D2>>, <<D1, D2, D3, D4, D5, D6, D7, D8>>,
            <<D8, D7, D6, D5, D4, D3, D2, D1>> }

\* What a search with k=5 may return
Found5 == { <<>>, <<D1, D2, D3, D4, D5>> }

\* What the searches with k=3 of the expanded queries may return
Found3 == { <<Ok(<<D6, D2, D7>>), Ok(<<D2, D5, D1>>), Ok(<<D3, D8, D9>>)>>,
            <<Ok(<<D3, D8, D9>>), Ok(<<D7, D6, D2>>), Ok(<<D2, D5, D1>>)>>,
            <<Ok(<<D2, D5, D1>>), Ok(<<D2, D5, D1>>), Ok(<<D2, D5, D1>>)>>,
            <<Ok(<<>>), Ok(<<>>), Ok(<<>>)>>,
            <<Ok(<<D6, D2, D7>>), Raised, Ok(<<D3, D8, D9>>)>>,
            <<Ok(<<D6, D2, D7>>), Ok(<<D2, D5, D1>>), Raised>>,
            <<Raised, Raised, Raised>> }

RetrQueries ==
    { EmptyStr, <<Run(" ", 2)>>,
      Lit(<<"a", " ", "b">>), Lit(<<"A", " ", "a", " ", "b">>),
      Lit(<<"a", "?">>), Lit(<<"H", "o", "w", " ", "a">>),
      Lit(<<"w", "h", "a", "t", "?">>), Lit(<<"y", " ", "q">>) }

\* What the searches of a call of retrieve may do.  A search the strategy
\* never makes does not return.
RetrEnvs(strategy) ==
    [s8 : IF strategy = "hybrid" THEN {Raised} \cup {Ok(l) : l \in Found8} ELSE {Raised},
     s3 : IF strategy = "contextual" THEN Found3 ELSE {<<Raised, Raised, Raised>>},
     s5 : {Raised} \cup {Ok(l) : l \in Found5}]

\* What retrieve returned and the searches it made
Retrieved(out, calls) == [out |-> out, calls |-> calls, done |-> TRUE]

RetrInit ==
    /\ rStrategy \in RetrievalTags
    /\ rQuery \in RetrQueries
    /\ rEnv \in RetrEnvs(rStrategy)
    /\ rRes = NoRetrieved
    /\ AgentInit
    /\ ChunkIdle

\* result = strategy.retrieve(query, vector_store)
RetrApply ==
    /\ ~rRes.done
    /\ rRes' = Retrieved(Strategy_retrieve(rStrategy, rQuery, rEnv.s8, rEnv.s3, rEnv.s5),
                         Strategy_searches(rStrategy, rQuery, rEnv.s8, rEnv.s3))
    /\ UNCHANGED <<rStrategy, rQuery, rEnv, agentVars, dbVars, chunkVars, raceVars>>

RetrNext == RetrApply

SpecRetrieve == RetrInit /\ [][RetrNext]_vars

-----------------------------------------------------------------------------
(* Claims about the retrieval strategies (checked under SpecRetrieve) *)

RetrDone == rRes.done

\* The distinct lower-cased whitespace-split terms of a string
Terms(text) == SplitTerms(LowerStr(text))

\* The number of distinct query terms that occur among the content terms
Overlap(query, content) == Cardinality({t \in Terms(query) : t \in Terms(content)})

\* a = b, a >= b and a > b for fractions with positive denominators
FracEq(a, b) == a.num * b.den = b.num * a.den
FracGeq(a, b) == a.num * b.den >= b.num * a.den
FracGt(a, b) == a.num * b.den > b.num * a.den

\* A snippet without the score a strategy added to it
Without(doc, key) == [k \in (DOMAIN doc) \ {key} |-> doc[k]]

\* The number of times v occurs in seq
Count(seq, v) == Cardinality({i \in 1..Len(seq) : seq[i] = v})

\* Hybrid retrieval whose search with k=8 returned
HybridOk == RetrDone /\ rStrategy = "hybrid" /\ rEnv.s8.ok

\* C12: Hybrid retrieval gives every candidate of the k=8 search
\* hybrid_score = 0.7 * similarity_score + 0.3 * keyword_score, where
\* keyword_score is the number of distinct lower-cased query terms found among
\* the lower-cased content terms over the number of distinct query terms
\* (repeated query terms count once); the snippets returned carry that score.
C12_HybridScore ==
    (HybridOk /\ Terms(rQuery) # {}) =>
        LET q == Cardinality(Terms(rQuery))
            scored == keyword_results(rQuery, rEnv.s8.val)
            expected(doc) == Frac(7 * doc.similarity_score * q
                                    + 3 * 1000 * Overlap(rQuery, doc.content),
                                  10 * 1000 * q)
        IN  /\ Len(scored) = Len(rEnv.s8.val)
            /\ \A i \in 1..Len(scored) :
                  /\ Without(scored[i], "hybrid_score") = rEnv.s8.val[i]
                  /\ scored[i].hybrid_score.den > 0
                  /\ FracEq(scored[i].hybrid_score, expected(rEnv.s8.val[i]))
            /\ \A i \in 1..Len(rRes.out) :
                  \E j \in 1..Len(scored) : rRes.out[i] = scored[j]

\* The query "A a b" has the two terms a and b; the candidate "a" with
\* similarity 0.8 has keyword_score 0.5 and is returned with hybrid_score 0.71.
C12_Witness ==
    /\ HybridOk /\ rQuery = Lit(<<"A", " ", "a", " ", "b">>)
    /\ Len(rEnv.s8.val) = 8
    /\ \E i \in 1..Len(rRes.out) :
          /\ rRes.out[i].similarity_score = 800
          /\ rRes.out[i].content = Lit(<<"a">>)
          /\ FracEq(rRes.out[i].hybrid_score, Frac(71, 100))

\* C13: when the search returned, Hybrid retrieval made that one search with
\* k=8 and returns at most 5 snippets, each one of its candidates (none
\* twice), with hybrid_score non-increasing, and no candidate left out has a
\* hybrid_score strictly greater than one returned.
C13_HybridTopFive ==
    HybridOk =>
        LET scored == keyword_results(rQuery, rEnv.s8.val)
            out == rRes.out
        IN  /\ rRes.calls = <<Search(rQuery, 8)>>
            /\ Len(rEnv.s8.val) <= 8
            /\ Len(out) <= 5
            /\ Len(out) = Min(5, Len(scored))
            /\ \A i \in 1..Len(out) :
                  /\ Count(scored, out[i]) >= Count(out, out[i])
                  /\ Without(out[i], "hybrid_score") \in
                        {rEnv.s8.val[j] : j \in 1..Len(rEnv.s8.val)}
            /\ \A i \in 1..Len(out) - 1 :
                  FracGeq(out[i].hybrid_score, out[i + 1].hybrid_score)
            /\ \A j \in 1..Len(scored) :
                  Count(out, scored[j]) < Count(scored, scored[j]) =>
                      \A i \in 1..Len(out) :
                          ~FracGt(scored[j].hybrid_score, out[i].hybrid_score)

\* Eight candidates, the query "a b": the fifth candidate of the search is
\* returned first, and three candidates are left out.
C13_Witness ==
    /\ HybridOk /\ rQuery = Lit(<<"a", " ", "b">>)
    /\ rEnv.s8.val = <<D1, D2, D3, D4, D5, D6, D7, D8>>
    /\ Len(rRes.out) = 5
    /\ Without(rRes.out[1], "hybrid_score") = D5
    /\ Without(rRes.out[5], "hybrid_score") = D6

\* C14: for a query without terms (empty or whitespace only) Hybrid
\* retrieval gives every candidate keyword_score 0, hybrid_score
\* 0.7 * similarity_score, does not fall back to Basic (its only search is the
\* one with k=8) and ranks the candidates by similarity_score alone.
C14_HybridEmptyQuery ==
    (HybridOk /\ IsBlank(rQuery)) =>
        LET scored == keyword_results(rQuery, rEnv.s8.val)
            out == rRes.out
        IN  /\ Terms(rQuery) = {}
            /\ rRes.calls = <<Search(rQuery, 8)>>
            /\ \A j \in 1..Len(scored) :
                  FracEq(scored[j].hybrid_score,
                         Frac(7 * scored[j].similarity_score, 10 * 1000))
            /\ Len(out) = Min(5, Len(scored))
            /\ \A i \in 1..Len(out) :
                  /\ "hybrid_score" \in DOMAIN out[i]
                  /\ \E j \in 1..Len(scored) : out[i] = scored[j]
            /\ \A i \in 1..Len(out) - 1 :
                  out[i].similarity_score >= out[i + 1].similarity_score
            /\ \A j \in 1..Len(scored) :
                  (\A i \in 1..Len(out) : out[i] # scored[j]) =>
                      \A i \in 1..Len(out) :
                          scored[j].similarity_score <= out[i].similarity_score

\* A query of two blanks over eight candidates delivered worst first, while
\* the search of Basic would have returned others: the five most similar are
\* returned, most similar first.
C14_Witness ==
    /\ HybridOk /\ rQuery = <<Run(" ", 2)>>
    /\ rEnv.s8.val = <<D8, D7, D6, D5, D4, D3, D2, D1>>
    /\ rEnv.s5 = Ok(<<D1, D2, D3, D4, D5>>)
    /\ [i \in 1..5 |-> rRes.out[i].similarity_score] = <<900, 800, 800, 700, 600>>
    /\ rRes.out[1].hybrid_score = Frac(6300, 10000)

\* The variations of a query in the order of their searches: the query,
\* the query with "?" if it does not end with one, "what is " and the query
\* if its lower-cased form starts with none of the interrogatives.
Variants(query) ==
    <<query>>
    \o (IF query # <<>> /\ query[Len(query)].c = "?" THEN <<>>
        ELSE <<Cat(query, S_Question)>>)
    \o (IF \E w \in Interrogatives : Prefix(LowerStr(query), StrLen(w)) = w THEN <<>>
        ELSE <<Cat(S_WhatIs, query)>>)

\* What Basic retrieval returns on the same query and store
BasicResult == IF rEnv.s5.ok THEN rEnv.s5.val ELSE <<>>

\* The searches of the variations all returned
VariantsFound == \A i \in 1..Len(Variants(rQuery)) : rEnv.s3[i].ok

\* The results of the searches of the variations, one after the other
Merged == Flatten([i \in 1..Len(Variants(rQuery)) |-> rEnv.s3[i].val])

\* Contextual retrieval fails internally: a search raises, or the ranking
\* divides by the number of terms of a query that has none
ContextualFailed ==
    /\ RetrDone /\ rStrategy = "contextual"
    /\ ~VariantsFound \/ (Terms(rQuery) = {} /\ Merged # <<>>)

\* Contextual retrieval whose try block completed
ContextualOk == RetrDone /\ rStrategy = "contextual" /\ ~ContextualFailed

\* content[:100]
Head100(doc) == Prefix(doc.content, 100)

\* C15: retrieve of no strategy raises: it returns a list.  When Hybrid or
\* Contextual fails internally the list is what Basic retrieval returns for
\* the query and store; when every similarity search fails the list is empty,
\* and the agent answers an empty list with the fixed sentence.
C15_RetrieveNeverRaises ==
    RetrDone =>
        /\ DOMAIN rRes.out = 1..Len(rRes.out)
        /\ (rStrategy = "hybrid" /\ ~rEnv.s8.ok) => rRes.out = BasicResult
        /\ ContextualFailed => rRes.out = BasicResult
        /\ (~rEnv.s8.ok /\ ~rEnv.s5.ok /\ \A i \in 1..3 : ~rEnv.s3[i].ok) => rRes.out = <<>>
        /\ (rRes.out = <<>>) =>
              \A ctx \in ContextOutcomes :
                  ask_body(rQuery, rRes.out, ctx) = Answered(<<S_NoInfo>>, {})

\* The searches of Contextual retrieval found snippets for a query of
\* blanks, the ranking divided by zero, and the snippets of Basic came back.
C15_Witness ==
    /\ ContextualFailed /\ VariantsFound
    /\ rQuery = <<Run(" ", 2)>>
    /\ rRes.out = <<D1, D2, D3, D4, D5>>

\* C16: in the merged result of Contextual retrieval no two snippets have
\* the same first 100 characters of content: of the snippets with one such
\* prefix only the first in merge order is kept, and every snippet with a
\* prefix not seen before is kept.
C16_ContextualDedup ==
    (RetrDone /\ rStrategy = "contextual" /\ VariantsFound) =>
        LET merged == Merged
            unique == deduplicate_results(merged)
            mHead == [i \in 1..Len(merged) |-> Head100(merged[i])]
            uHead == [p \in 1..Len(unique) |-> Head100(unique[p])]
            firstAt == [p \in 1..Len(unique) |->
                           CHOOSE i \in 1..Len(merged) :
                               /\ mHead[i] = uHead[p]
                               /\ \A j \in 1..i - 1 : mHead[j] # uHead[p]]
            out == rRes.out
        IN  /\ \A p \in 1..Len(unique), r \in 1..Len(unique) :
                  p # r => uHead[p] # uHead[r]
            /\ \A p \in 1..Len(unique) :
                  /\ \E i \in 1..Len(merged) : mHead[i] = uHead[p]
                  /\ unique[p] = merged[firstAt[p]]
                  /\ p > 1 => firstAt[p - 1] < firstAt[p]
            /\ \A i \in 1..Len(merged) :
                  \E p \in 1..Len(unique) : uHead[p] = mHead[i]
            /\ ContextualOk =>
                  /\ \A i \in 1..Len(out) :
                        \E p \in 1..Len(unique) :
                            Without(out[i], "relevance_score") = unique[p]
                  /\ \A i \in 1..Len(out), j \in 1..Len(out) :
                        i # j => Head100(out[i]) # Head100(out[j])

\* Two distinct chunks with the same first 100 characters were found: the
\* first is returned, the second is not.
C16_Witness ==
    /\ ContextualOk
    /\ \E i \in 1..Len(Merged), j \in 1..Len(Merged) :
          i < j /\ Merged[i] = D6 /\ Merged[j] = D7
    /\ \E i \in 1..Len(rRes.out) : Without(rRes.out[i], "relevance_score") = D6
    /\ \A i \in 1..Len(rRes.out) : Without(rRes.out[i], "relevance_score") # D7

\* C17: the searches with k=3 of Contextual retrieval are those of the
\* variations of the query, in their order: the query, the query with "?"
\* (unless it ends with "?"), "what is " and the query (unless its
\* lower-cased form starts with what, how, why, when or where).  There are
\* between 1 and 3 of them, all of them made unless one raises, and at most 9
\* snippets are merged; the only other search is that of the Basic fallback
\* after a failure.
C17_ContextualQueries ==
    (RetrDone /\ rStrategy = "contextual") =>
        LET issued == SelectSeq(rRes.calls, LAMBDA c : c.k = 3)
            others == SelectSeq(rRes.calls, LAMBDA c : c.k # 3)
        IN  /\ Len(Variants(rQuery)) \in 1..3
            /\ Len(issued) \in 1..Len(Variants(rQuery))
            /\ issued = [i \in 1..Len(issued) |-> Search(Variants(rQuery)[i], 3)]
            /\ \A i \in 1..Len(issued) - 1 : rEnv.s3[i].ok
            /\ Len(issued) < Len(Variants(rQuery)) => ~rEnv.s3[Len(issued)].ok
            /\ rRes.calls = issued \o others
            /\ others = IF ContextualFailed THEN <<Search(rQuery, 5)>> ELSE <<>>
            /\ VariantsFound =>
                  /\ Len(Merged) <= 9
                  /\ \A i \in 1..Len(issued) : Len(rEnv.s3[i].val) <= 3

\* "How a" starts with an interrogative in upper case and does not end with
\* "?": two searches, of "How a" and of "How a?".
C17_Witness ==
    /\ ContextualOk
    /\ rRes.calls = << Search(Lit(<<"H", "o", "w", " ", "a">>), 3),
                       Search(Lit(<<"H", "o", "w", " ", "a", "?">>), 3) >>
    /\ Len(rRes.out) = 5

\* C18: without internal failure Contextual retrieval returns at most 5
\* snippets of the deduplicated set (the best of them), ordered by
\* non-increasing relevance_score, the fraction of the distinct terms of the
\* original query that occur among the lower-cased content terms.
C18_ContextualRanking ==
    ContextualOk =>
        LET unique == deduplicate_results(Merged)
            q == Cardinality(Terms(rQuery))
            relevance(doc) == Frac(Overlap(rQuery, doc.content), q)
            out == rRes.out
        IN  /\ Len(out) <= 5
            /\ Len(out) = Min(5, Len(unique))
            /\ \A i \in 1..Len(out) :
                  /\ Count(unique, Without(out[i], "relevance_score")) = 1
                  /\ Count(out, out[i]) = 1
                  /\ out[i].relevance_score.den > 0
                  /\ FracEq(out[i].relevance_score, relevance(out[i]))
            /\ \A i \in 1..Len(out) - 1 :
                  FracGeq(out[i].relevance_score, out[i + 1].relevance_score)
            /\ \A p \in 1..Len(unique) :
                  (\A i \in 1..Len(out) : Without(out[i], "relevance_score") # unique[p]) =>
                      \A i \in 1..Len(out) :
                          ~FracGt(relevance(unique[p]), out[i].relevance_score)

\* Seven distinct snippets were merged for the query "a b"; the two that
\* hold both terms come first with relevance 1, the one that holds neither
\* is left out.
C18_Witness ==
    /\ ContextualOk /\ rQuery = Lit(<<"a", " ", "b">>)
    /\ Len(deduplicate_results(Merged)) = 7
    /\ [i \in 1..5 |-> Without(rRes.out[i], "relevance_score")] = <<D5, D8, D6, D2, D3>>
    /\ rRes.out[2].relevance_score = Frac(2, 2)
    /\ rRes.out[3].relevance_score = Frac(1, 2)

\* The place of a snippet in a list
PlaceIn(seq, doc) == CHOOSE i \in 1..Len(seq) : seq[i] = doc

\* C19: in the descending sorts of Hybrid retrieval (by hybrid_score) and of
\* Contextual retrieval (by relevance_score) two snippets with equal scores
\* keep the order in which the search, or the merge, delivered them.
C19_StableTies ==
    /\ HybridOk =>
          \A i \in 1..Len(rRes.out), j \in 1..Len(rRes.out) :
              (i < j /\ FracEq(rRes.out[i].hybrid_score, rRes.out[j].hybrid_score)) =>
                  PlaceIn(rEnv.s8.val, Without(rRes.out[i], "hybrid_score"))
                    < PlaceIn(rEnv.s8.val, Without(rRes.out[j], "hybrid_score"))
    /\ ContextualOk =>
          LET unique == deduplicate_results(Merged)
          IN  \A i \in 1..Len(rRes.out), j \in 1..Len(rRes.out) :
                  (i < j /\ FracEq(rRes.out[i].relevance_score,
                                   rRes.out[j].relevance_score)) =>
                      PlaceIn(unique, Without(rRes.out[i], "relevance_score"))
                        < PlaceIn(unique, Without(rRes.out[j], "relevance_score"))

\* The candidates "a" and "b" have the same hybrid_score for the query
\* "a b" and are returned in the order of the search.
C19_Witness ==
    /\ HybridOk /\ rQuery = Lit(<<"a", " ", "b">>)
    /\ rEnv.s8.val = <<D1, D2, D3, D4, D5, D6, D7, D8>>
    /\ Without(rRes.out[2], "hybrid_score") = D2
    /\ Without(rRes.out[3], "hybrid_score") = D3
    /\ rRes.out[2].hybrid_score = rRes.out[3].hybrid_score

\* C26: Contextual retrieval on a query without terms (empty, or blanks
\* only) returns a list: the empty list, with no further search, when the
\* searches of the variations return nothing; and when they return a
\* snippet, what the k=5 search of Basic returns (at most 5 snippets
\* without relevance_score), the empty list if that search raises.
C26_ContextualNoTerms ==
    (RetrDone /\ rStrategy = "contextual" /\ Terms(rQuery) = {}) =>
        LET variants == Variants(rQuery)
            searched == [i \in 1..Len(variants) |-> Search(variants[i], 3)]
            merged == Merged
            out == rRes.out
        IN  /\ Len(variants) = 3
            /\ Len(out) <= 5
            /\ \A i \in 1..Len(out) : "relevance_score" \notin DOMAIN out[i]
            /\ (VariantsFound /\ merged = <<>>) =>
                  /\ out = <<>>
                  /\ rRes.calls = searched
            /\ (VariantsFound /\ merged # <<>>) =>
                  /\ out = BasicResult
                  /\ rRes.calls = searched \o <<Search(rQuery, 5)>>

\* A query of two blanks whose variations found snippets: the five snippets
\* of the k=5 search are returned, not the snippets found.
C26_Witness ==
    /\ RetrDone /\ rStrategy = "contextual" /\ rQuery = <<Run(" ", 2)>>
    /\ VariantsFound /\ Merged # <<>>
    /\ Len(rRes.out) = 5
    /\ rRes.out = rEnv.s5.val
    /\ \E i \in 1..5 : \A j \in 1..Len(Merged) : Merged[j].content # rRes.out[i].content

-----------------------------------------------------------------------------
(* Claims about the knowledge base (checked under Spec) *)

\* File names and chunk ids the storage id is built from
IdNames == {NameA, NameB, Lit(<<"a">>), Lit(<<"a", "_", "1">>), Lit(<<"a", "_", "1", "_", "0">>)}
IdChunks == 0..(MaxPieces + 9)

\* f"{filename}_{chunk_id}" of a (filename, chunk_id) pair
PairId(name, chunk_id) ==
    StorageId([metadata |-> [filename |-> name, chunk_id |-> chunk_id]])

\* The storage id is distinct for distinct (filename, chunk_id) pairs
StorageIdInjective ==
    \A n1 \in IdNames, n2 \in IdNames, c1 \in IdChunks, c2 \in IdChunks :
        (PairId(n1, c1) = PairId(n2, c2)) => (n1 = n2 /\ c1 = c2)

\* C11: whatever process_pdf and clear_knowledge_base calls were made, no two
\* records of the knowledge base have the same (filename, chunk_id) pair, and
\* the storage id filename + "_" + chunk_id is distinct for distinct pairs.
C11_UniqueChunkKeys ==
    /\ \A r1 \in dbRecs, r2 \in dbRecs :
          (r1.metadata.filename = r2.metadata.filename
             /\ r1.metadata.chunk_id = r2.metadata.chunk_id) => r1 = r2
    /\ \A r \in dbRecs : r.id = PairId(r.metadata.filename, r.metadata.chunk_id)
    /\ StorageIdInjective

\* process_pdf returned True for a file whose name was ingested before from
\* another directory: a chunk of it has the key of a record stored with
\* another content.
C11_Witness ==
    /\ IngestDone /\ ret.flag
    /\ \E i \in 1..Len(addArg) :
          /\ Record(addArg[i]) \notin dbRecs
          /\ StorageId(addArg[i]) \in Ids(dbRecs)

\* The block of the i-th snippet: its number, its filename (or "Unknown"),
\* its similarity_score (0 when absent) with 3 decimals, its content and the
\* delimiter line.
ContextBlock(i, doc) ==
    LET source == IF "filename" \in DOMAIN doc.metadata THEN doc.metadata.filename
                  ELSE S_Unknown
        score == IF "similarity_score" \in DOMAIN doc THEN doc.similarity_score ELSE 0
    IN  Join(EmptyStr, << S_DocumentN, IntStr(i), S_Source, source,
                          S_RelevanceScore, Fixed3(score), S_Content, doc.content,
                          S_Delimiter >>)

\* The blocks of the first n snippets, one after the other with a line
\* break between two blocks
RECURSIVE ContextUpTo(_, _)
ContextUpTo(docs, n) ==
    IF n = 0 THEN EmptyStr
    ELSE Cat(Cat(ContextUpTo(docs, n - 1), IF n > 1 THEN S_Newline ELSE EmptyStr),
             ContextBlock(n, docs[n]))

\* A snippet without filename and without similarity_score is shown as
\* "Unknown" with score 0.000
ContextDefaults ==
    prepare_context(<<[content |-> Lit(<<"a">>), metadata |-> [chunk_id |-> 0]]>>)
      = Lit(<<"\n", "D", "o", "c", "u", "m", "e", "n", "t", " ", "1", ":", "\n",
              "S", "o", "u", "r", "c", "e", ":", " ", "U", "n", "k", "n", "o", "w", "n", "\n",
              "R", "e", "l", "e", "v", "a", "n", "c", "e", " ", "S", "c", "o", "r", "e", ":",
              " ", "0", ".", "0", "0", "0", "\n",
              "C", "o", "n", "t", "e", "n", "t", ":", " ", "a", "\n", "-", "-", "-", "\n">>)

\* C20: when the retriever returns n >= 1 snippets, the context handed to
\* generate_response is made of n blocks, "Document 1" to "Document n" in
\* the order of the snippets, each with the filename (or "Unknown"), the
\* similarity_score (0 when absent) and the content of its snippet, and
\* generate_response is called exactly once, with the question and that
\* context.
C20_ContextBlocks ==
    /\ ContextDefaults
    /\ (pc = "Ask_generate") =>
          /\ Len(relevant_docs) >= 1
          /\ llmCalls = <<[prompt |-> arg.question,
                           context |-> ContextUpTo(relevant_docs, Len(relevant_docs))]>>
    /\ (AskDone /\ llmCalls # <<>>) =>
          /\ Len(relevant_docs) >= 1
          /\ Len(llmCalls) = 1
          /\ llmCalls[1].context = ContextUpTo(relevant_docs, Len(relevant_docs))
    /\ (AskDone /\ raised \cap {"question", "context"} = {} /\ relevant_docs # <<>>) =>
          Len(llmCalls) = 1

\* A question was answered from three snippets with different scores: one
\* call of generate_response with the question and a context of three blocks.
C20_Witness ==
    /\ AskDone /\ ret.op = "ask_question"
    /\ Len(relevant_docs) = 3 /\ Len(llmCalls) = 1
    /\ llmCalls[1].prompt = Lit(<<"c">>)
    /\ relevant_docs[1].similarity_score # relevant_docs[3].similarity_score
    /\ StrLen(llmCalls[1].context) > 3 * 50

\* The chunks with content, in the order the model streamed them
Fragments(chunks) == SelectSeq(chunks, LAMBDA content : content # EmptyStr)

\* C21: when the LLM is called and its stream ends, ask_question_stream has
\* yielded exactly the non-empty contents the model streamed, in their order,
\* and ask_question returns their concatenation; while the stream runs, the
\* fragments handed over so far are those of the chunks streamed so far.
C21_StreamOrder ==
    /\ (pc = "Ask_generate") => response_parts = Fragments(streamed)
    /\ (AskDone /\ llmCalls # <<>> /\ "llm" \notin raised) =>
          /\ relevant_docs # <<>>
          /\ ~ret.raised
          /\ ret.text = IF ret.op = "ask_question_stream" THEN Fragments(streamed)
                        ELSE Join(EmptyStr, Fragments(streamed))

\* A streamed question was answered from a stream of "ok" then "!".
C21_Witness ==
    /\ AskDone /\ llmCalls # <<>> /\ "llm" \notin raised
    /\ streamed = <<Lit(<<"o", "k">>), Lit(<<"!">>)>>
    /\ ret.op = "ask_question_stream"
    /\ ret.text = <<Lit(<<"o", "k">>), Lit(<<"!">>)>>

\* C22: when the call of the model raises after k chunks, generate_response
\* has yielded the fragments of those chunks, yields one fragment
\* "Error: <message>" and ends; ask_question_stream yields that text last and
\* ask_question returns the fragments and the error text concatenated.
C22_LLMFailure ==
    (AskDone /\ "llm" \in raised) =>
        /\ ~ret.raised
        /\ \E m \in ErrorMessages :
              LET yielded == Append(Fragments(streamed), Cat(S_Error, m))
              IN  /\ response_parts = yielded
                  /\ ret.text = IF ret.op = "ask_question_stream" THEN yielded
                                ELSE Join(EmptyStr, yielded)

\* The model raised with message "E" after streaming "ok" and "!", and
\* the question was not a streamed one.
C22_Witness ==
    /\ AskDone /\ "llm" \in raised /\ ret.op = "ask_question"
    /\ streamed = <<Lit(<<"o", "k">>), Lit(<<"!">>)>>
    /\ ret.text = Lit(<<"o", "k", "!", "E", "r", "r", "o", "r", ":", " ", "E">>)

\* The file has a page with text that is not blank
HasTextPage(file) == \E i \in 1..Len(file.pages) : ~IsBlank(file.pages[i])

\* C23: PDFProcessor.process_pdf raises whenever no page with text that is
\* not blank was extracted and whenever the chunking strategy raises; it
\* returns a chunk list only for a file with such a page.
C23_PipelineFailure ==
    [][(pc = "Ingest_pipeline") =>
          /\ ~HasTextPage(arg) => raised' \cap {"extract", "chunk"} # {}
          /\ ("chunk" \in raised') => (pc' = "Returned" /\ ret' = ReturnBool("process_pdf", FALSE))
          /\ (raised' = {}) => HasTextPage(arg)]_vars

\* C24: only clear_knowledge_base removes stored records.  A step of
\* ask_question, ask_question_stream, get_knowledge_base_stats or of a
\* process_pdf that returns False leaves the records (ids, contents,
\* metadata) as they are, a step of process_pdf keeps every record and may
\* add some, and the number of records decreases only during a clear.
C24_RecordsKept ==
    [][/\ (Phase # "Clearing") =>
             /\ dbRecs \subseteq dbRecs'
             /\ Cardinality(dbRecs') >= Cardinality(dbRecs)
       /\ (Phase \in {"Ready", "Answering", "Reporting"}) => dbRecs' = dbRecs
       /\ (Phase = "Ingesting" /\ pc' = "Returned" /\ ~ret'.flag) => dbRecs' = dbRecs
       /\ (dbRecs' # dbRecs /\ Phase # "Clearing") =>
             /\ pc = "Ingest_store"
             /\ ret' = ReturnBool("process_pdf", TRUE)
             /\ dbRecs' \ dbRecs \subseteq {Record(pdfChunks[i]) : i \in 1..Len(pdfChunks)}]_vars

\* A process_pdf added a chunk of a file to those stored from another file
\* of the same name, which are still there.
C24_Witness ==
    /\ IngestDone /\ ret.flag
    /\ \E r \in dbRecs : r.metadata.file_path = PathStr([name |-> NameA, dir |-> DirU])
    /\ \E r \in dbRecs : r.metadata.file_path = PathStr([name |-> NameA, dir |-> DirV])

\* C27: the agent constructed with any pair of tags holds the chunking
\* strategy named by the first tag, Recursive if it is none of recursive,
\* semantic, contextual, hybrid, and the retrieval strategy named by the
\* second, Basic if it is none of basic, hybrid, contextual.
C27_FactoriesTotal ==
    /\ chunking = CASE tags[1] = "recursive" -> "recursive"
                    [] tags[1] = "semantic" -> "semantic"
                    [] tags[1] = "contextual" -> "contextual"
                    [] tags[1] = "hybrid" -> "hybrid"
                    [] OTHER -> "recursive"
    /\ retrieval = CASE tags[2] = "basic" -> "basic"
                     [] tags[2] = "hybrid" -> "hybrid"
                     [] tags[2] = "contextual" -> "contextual"
                     [] OTHER -> "basic"

\* An agent constructed with two unknown tags ingested a file with the
\* Recursive strategy and answered a question from it with the Basic one.
C27_Witness ==
    /\ tags = <<"other", "other">>
    /\ chunking = "recursive" /\ retrieval = "basic"
    /\ AskDone /\ llmCalls # <<>>
    /\ \A i \in 1..Len(relevant_docs) :
          /\ relevant_docs[i].metadata.chunking_strategy = "recursive"
          /\ DOMAIN relevant_docs[i] = {"content", "metadata", "similarity_score"}

-----------------------------------------------------------------------------
(* Claims about a concurrent clear (checked under SpecRace) *)

\* What the question was answered with: the returned string, or the last
\* fragment yielded
AskText == IF ret.op = "ask_question_stream" THEN ret.text[Len(ret.text)] ELSE ret.text

\* C25: a question whose retrieval ran after the other thread deleted the
\* collection and before it replaced the agent's handle retrieves nothing,
\* calls no LLM and is answered, without raising, with the fixed sentence
\* or an error text; no operation interleaved with the clear ends with an
\* exception, and after a clear that returned True the agent holds the
\* handle of the live collection.
C25_AskDuringClear ==
    /\ (searchedDuring = "reinit") =>
          /\ relevant_docs = <<>>
          /\ llmCalls = <<>>
          /\ AskDone =>
                /\ ret.op = "ask_question_stream" => Len(ret.text) = 1
                /\ AskText = S_NoInfo \/ StartsWith(AskText, S_ErrorOccurred)
    /\ (pc = "Returned") => ~ret.raised
    /\ clearPc \in {"none", "delete", "reinit", "true", "false"}
    /\ (clearPc = "true") => (handle = dbLive /\ dbLive # 0)

\* A question whose retrieval ran between the deletion and the replacement
\* of the handle was answered with the fixed sentence, after the clear had
\* returned True.
C25_Witness ==
    /\ AskDone /\ ret.op = "ask_question"
    /\ searchedDuring = "reinit" /\ clearPc = "true"
    /\ raised = {"search"}
    /\ ret.text = S_NoInfo

-----------------------------------------------------------------------------
(* The chunking strategies applied to bounded inputs *)


ChunkTexts ==
    { EmptyStr,
      Lit(<<"A", "b", ".", " ", "c", ".", " ", "d", ".", " ", "e">>),
      <<Run("x", 9999), Run(" ", 1)>>,
      <<Run("x", 9999), Run(" ", 1), Run("y", 1)>>,
      <<Run("x", 6000), Run(".", 2), Run(" ", 2), Run("y", 5996)>> }

ChunkMetas ==
    { [filename |-> NameA, source_type |-> "pdf"],
      [filename |-> NameA, page_number |-> 12, chunk_id |-> 7] }

ChunkInit ==
    /\ cStrategy \in ChunkingTags
    /\ cText \in ChunkTexts
    /\ cMeta \in ChunkMetas
    /\ cEnv = NoEnv
    /\ cRes = NoResult
    /\ AgentInit
    /\ RetrIdle

\* result = strategy.chunk_text(text, metadata)
ChunkApply ==
    /\ cRes = NoResult
    /\ \E env \in SplitEnvs(cText) :
          /\ cEnv' = env
          /\ cRes' = chunk_text(cStrategy, cText, cMeta, env)
    /\ UNCHANGED <<cStrategy, cText, cMeta, agentVars, dbVars, retrVars, raceVars>>

ChunkNext == ChunkApply

SpecChunk == ChunkInit /\ [][ChunkNext]_vars

-----------------------------------------------------------------------------
(* Claims about the chunking strategies (checked under SpecChunk) *)

ChunkDone == cRes # NoResult

\* C8: every chunk record returned by Hybrid chunk_text carries
\* chunking_strategy = "hybrid", whichever delegate produced the chunks
\* (Semantic, Recursive, or Recursive as the fallback after a failure).
C8_HybridTagAlways ==
    (cStrategy = "hybrid" /\ ChunkDone /\ cRes.ok) =>
        \A i \in 1..Len(cRes.val) : cRes.val[i].metadata.chunking_strategy = "hybrid"

\* C9: Hybrid calls Semantic first exactly when len(text) > 10000 and
\* Recursive otherwise; if that delegate succeeds nothing else is called and
\* Hybrid returns; if it fails, Recursive is called once more and its outcome
\* (its chunks, or its exception) is the outcome of Hybrid.
C9_HybridRouting ==
    (cStrategy = "hybrid" /\ ChunkDone) =>
        LET long == StrLen(cText) > 10000
            firstOk == IF long THEN cEnv.sem.ok ELSE cEnv.rec.ok
        IN  /\ cRes.calls[1] = (IF long THEN "semantic" ELSE "recursive")
            /\ firstOk => (cRes.ok /\ Len(cRes.calls) = 1)
            /\ ~firstOk =>
                  /\ cRes.calls = <<cRes.calls[1], "recursive">>
                  /\ cRes.ok = cEnv.fb.ok
                  /\ cRes.val = Recursive_chunk_text(cText, cMeta, cEnv.fb).val

\* A text of exactly 10000 characters went to Recursive, and a longer one
\* whose Semantic call failed was chunked by the Recursive fallback.
C9_Witness ==
    /\ cStrategy = "hybrid" /\ ChunkDone
    /\ \/ StrLen(cText) = 10000 /\ cRes.calls = <<"recursive">> /\ Len(cRes.val) = 2
       \/ StrLen(cText) = 10001 /\ cRes.calls = <<"semantic", "recursive">>
          /\ cRes.ok /\ Len(cRes.val) = 3

\* C10: for every strategy and text the chunk_id values, in output order, are
\* 0, 1, ..., n-1 and each chunk_size is the length of that chunk's content.
C10_ChunkIdsAndSizes ==
    (ChunkDone /\ cRes.ok) =>
        \A i \in 1..Len(cRes.val) :
            /\ cRes.val[i].metadata.chunk_id = i - 1
            /\ cRes.val[i].metadata.chunk_size = StrLen(cRes.val[i].content)

\* Contextual chunking produced three chunks from metadata that already held
\* a chunk_id.
C10_Witness ==
    /\ cStrategy = "contextual" /\ ChunkDone /\ cRes.ok
    /\ Len(cRes.val) = 3
    /\ "page_number" \in DOMAIN cMeta

====
